---- MODULE Spec2Model ----
(***************************************************************************)
(* A model of tot-rs: the Tot lexical primitives (src/src/parser.rs), the  *)
(* serde deserializer adapter (src/src/de.rs) and the serde serializer     *)
(* with its pretty formatter (src/src/ser.rs).                             *)
(*                                                                         *)
(* Text is a sequence of one-character strings.  A recognizer result is a  *)
(* record [ok, rem, val]: on failure rem is the input it was given.        *)
(* Integers are decimal digit sequences (most significant digit first), so *)
(* that 64-bit bounds are exact; a number is [neg, ip, fp], the sign, the  *)
(* integral digits and the fractional digits of its decimal expansion.     *)
(***************************************************************************)
EXTENDS Integers, Sequences, FiniteSets, TLC

\* ------------------------------------------------------------------------
\* Text helpers
\* ------------------------------------------------------------------------

\* `let x = e; k(x)`: e is computed once.
Bind(x, K(_)) == K(x)

Drop(s, n) == SubSeq(s, n + 1, Len(s))

Take(s, n) == SubSeq(s, 1, n)

StartsWith(s, p) == Len(s) >= Len(p) /\ SubSeq(s, 1, Len(p)) = p

EndsWith(s, p) == Len(s) >= Len(p) /\ SubSeq(s, Len(s) - Len(p) + 1, Len(s)) = p

\* The least index of s at which test holds, or Len(s) + 1.
FirstAt(s, test(_)) ==
    IF \A i \in 1..Len(s) : ~test(i) THEN Len(s) + 1
    ELSE CHOOSE i \in 1..Len(s) : test(i) /\ \A j \in 1..(i - 1) : ~test(j)

\* Length of the longest prefix of s whose characters all satisfy "in cs".
SpanIn(s, cs) == FirstAt(s, LAMBDA i : s[i] \notin cs) - 1

\* Length of the longest prefix of s none of whose characters is in cs.
SpanNotIn(s, cs) == FirstAt(s, LAMBDA i : s[i] \in cs) - 1

\* Offset of the first occurrence of p in s (0-based), or -1.
FindSub(s, p) ==
    Bind(FirstAt(s, LAMBDA i : StartsWith(Drop(s, i - 1), p)), LAMBDA n :
        IF n <= Len(s) THEN n - 1 ELSE IF p = <<>> THEN Len(s) ELSE -1)

Max(a, b) == IF a > b THEN a ELSE b

\* The least number of the set S of numbers.
Least(S) == CHOOSE n \in S : \A m \in S : n <= m

Min(a, b) == IF a < b THEN a ELSE b

Zeros(n) == IF n <= 0 THEN <<>> ELSE [i \in 1..n |-> 0]

Ok(rem, val) == [ok |-> TRUE, rem |-> rem, val |-> val]

\* nom's Err::Error: the recognizer does not apply, an alt, many0, opt or
\* not goes on.
Err(i) == [ok |-> FALSE, rem |-> i, val |-> "error"]

\* nom's Err::Failure, what cut makes of an error: alt, many0 and not hand
\* it on instead of going on.
Failure(i) == [ok |-> FALSE, rem |-> i, val |-> "failure"]

is_failure(r) == ~r.ok /\ r.val = "failure"

\* ------------------------------------------------------------------------
\* Character classes
\* ------------------------------------------------------------------------

\* nom multispace1: space, tab, carriage return, line feed.
MultispaceChars == {" ", "\t", "\r", "\n"}

\* char::is_whitespace, restricted to the characters texts are built from
\* (form feed is white space for a token but not for multispace1).
WhitespaceChars == {" ", "\t", "\r", "\n", "\f"}

DigitChars == {"0", "1", "2", "3", "4", "5", "6", "7", "8", "9"}

DigitVal(c) ==
    CASE c = "0" -> 0 [] c = "1" -> 1 [] c = "2" -> 2 [] c = "3" -> 3
      [] c = "4" -> 4 [] c = "5" -> 5 [] c = "6" -> 6 [] c = "7" -> 7
      [] c = "8" -> 8 [] c = "9" -> 9

\* The upper-case letter of a lower-case letter of "nan" and "infinity".
Upper(c) ==
    CASE c = "n" -> "N" [] c = "a" -> "A" [] c = "i" -> "I" [] c = "f" -> "F"
      [] c = "t" -> "T" [] c = "y" -> "Y"

DigitChar(d) == <<"0", "1", "2", "3", "4", "5", "6", "7", "8", "9">>[d + 1]

\* ------------------------------------------------------------------------
\* Decimal digit-sequence arithmetic
\* ------------------------------------------------------------------------

\* Without leading zeros; zero is <<0>>.
StripZeros(m) ==
    Bind(FirstAt(m, LAMBDA i : m[i] # 0), LAMBDA n :
        IF n > Len(m) THEN <<0>> ELSE Drop(m, n - 1))

\* Without trailing zeros; nothing is left of zeros only.
StripTrailingZeros(f) ==
    Take(f, Len(f) - Cardinality({i \in 1..Len(f) : \A j \in i..Len(f) : f[j] = 0}))

\* a < b digit by digit, for sequences of one length.
LexLess(a, b) ==
    Bind(FirstAt(a, LAMBDA i : a[i] # b[i]), LAMBDA n :
        n <= Len(a) /\ a[n] < b[n])

\* a < b on normalised magnitudes.
MagLess(a, b) ==
    IF Len(a) # Len(b) THEN Len(a) < Len(b) ELSE LexLess(a, b)

MagLeq(a, b) == a = b \/ MagLess(a, b)

\* m + 1
RECURSIVE MagInc(_)
MagInc(m) ==
    IF m = <<>> THEN <<1>>
    ELSE IF m[Len(m)] < 9 THEN Take(m, Len(m) - 1) \o <<m[Len(m)] + 1>>
    ELSE MagInc(Take(m, Len(m) - 1)) \o <<0>>

\* Long division of m by 2: the carry into a digit is the parity of the
\* digit on its left; the quotient keeps its leading zeros.
HalveDigits(m) ==
    [i \in 1..Len(m) |->
        ((IF i > 1 /\ m[i - 1] % 2 = 1 THEN 10 ELSE 0) + m[i]) \div 2]

MagHalf(m) == StripZeros(HalveDigits(m))

MagOdd(m) == m[Len(m)] % 2 = 1

\* Doubling: the carry into a digit is 1 when the digit on its right is 5
\* or more.
DoubleDigits(m) ==
    (IF m # <<>> /\ m[1] >= 5 THEN <<1>> ELSE <<>>) \o
    [i \in 1..Len(m) |->
        (2 * m[i] + (IF i < Len(m) /\ m[i + 1] >= 5 THEN 1 ELSE 0)) % 10]

MagDouble(m) == StripZeros(DoubleDigits(m))

\* r.m doubled r.k times, the count split in halves so that the recursion
\* stays shallow.
RECURSIVE ShlLoop(_)
ShlLoop(r) ==
    IF r.k = 0 THEN r
    ELSE IF r.k = 1 THEN [m |-> MagDouble(r.m), k |-> 0]
    ELSE ShlLoop([m |-> ShlLoop([m |-> r.m, k |-> r.k \div 2]).m,
                  k |-> r.k - r.k \div 2])

\* m * 2^k
MagShl(m, k) == ShlLoop([m |-> m, k |-> k]).m

Mag(str) == [i \in 1..Len(str) |-> DigitVal(str[i])]

\* 2^53: every integer of at most this magnitude is an f64.
Pow2_53 == <<9,0,0,7,1,9,9,2,5,4,7,4,0,9,9,2>>

Pow2_52 == <<4,5,0,3,5,9,9,6,2,7,3,7,0,4,9,6>>

I8Max == <<1,2,7>>
I8MinMag == <<1,2,8>>
I16Max == <<3,2,7,6,7>>
I16MinMag == <<3,2,7,6,8>>
I32Max == <<2,1,4,7,4,8,3,6,4,7>>
I32MinMag == <<2,1,4,7,4,8,3,6,4,8>>
I64Max == <<9,2,2,3,3,7,2,0,3,6,8,5,4,7,7,5,8,0,7>>
I64MinMag == <<9,2,2,3,3,7,2,0,3,6,8,5,4,7,7,5,8,0,8>>
U8Max == <<2,5,5>>
U16Max == <<6,5,5,3,5>>
U32Max == <<4,2,9,4,9,6,7,2,9,5>>
U64Max == <<1,8,4,4,6,7,4,4,0,7,3,7,0,9,5,5,1,6,1,5>>

\* ------------------------------------------------------------------------
\* f64
\*
\* A finite f64 is the record [neg, ip, fp] of its sign and of the integral
\* and fractional digits of a decimal that identifies it: its exact value
\* when that is an integer, else the shortest decimal that reads back as
\* the same f64 (the digits ryu prints).  Infinity and NaN carry a field
\* class.  In between, an f64 is b = [q, e], the value q * 2^e with
\* 2^52 <= q < 2^53, or e = MinExp and q < 2^52 for a subnormal.
\* ------------------------------------------------------------------------

Inf(neg) == [neg |-> neg, ip |-> <<>>, fp |-> <<>>, class |-> "inf"]

NaN == [neg |-> FALSE, ip |-> <<>>, fp |-> <<>>, class |-> "nan"]

is_finite(x) == "class" \notin DOMAIN x

is_nan(x) == ~is_finite(x) /\ x.class = "nan"

\* The exponent of the least subnormal, and the greatest exponent of a
\* finite f64 with a 53-bit q.
MinExp == 0 - 1074
MaxExp == 971

\* One binary place to the right: rnd is the last bit shifted out and
\* sticky tells whether anything below it was set.
Halve(r) ==
    [r EXCEPT !.q = MagHalf(r.q), !.e = r.e + 1, !.rnd = MagOdd(r.q),
              !.sticky = r.sticky \/ r.rnd]

\* r.n binary places to the right
RECURSIVE ShrLoop(_)
ShrLoop(r) ==
    IF r.n = 0 THEN r
    ELSE IF r.n = 1 THEN [Halve(r) EXCEPT !.n = 0]
    ELSE ShrLoop([ShrLoop([r EXCEPT !.n = r.n \div 2]) EXCEPT !.n = r.n - r.n \div 2])

\* n binary places to the right
Shr(r, n) ==
    ShrLoop([q |-> r.q, e |-> r.e, rnd |-> r.rnd, sticky |-> r.sticky, n |-> n])

\* The number of binary places by which q has more than 53 bits (q is below
\* 2^61).
Excess(q) == Cardinality({c \in 0..7 : ~MagLess(q, MagShl(Pow2_53, c))})

\* Halve until q has at most 53 bits.
F64Reduce(r) == Shr(r, Excess(r.q))

\* floor(p / 10^k) at the exponent e, with rnd and sticky telling how the
\* k digits cut off compare with one half (p has more than k digits).
ScaledPadded(p, k, e) ==
    [q |-> StripZeros(Take(p, Len(p) - k)), e |-> e,
     rnd |-> k > 0 /\ p[Len(p) - k + 1] >= 5,
     sticky |-> k > 0 /\ (p[Len(p) - k + 1] \notin {0, 5}
                          \/ \E i \in (Len(p) - k + 2)..Len(p) : p[i] # 0)]

\* floor(t / 10^k) at the exponent e
Scaled(t, k, e) == ScaledPadded(Zeros(k - Len(t)) \o t, k, e)

\* q * 2^e with a q of 53 bits at most: 2^53 is 2^52 at the next exponent.
Carry(q, e) == IF q = Pow2_53 THEN [q |-> Pow2_52, e |-> e + 1] ELSE [q |-> q, e |-> e]

\* Round to nearest, ties to even.
RoundEven(r) ==
    IF r.rnd /\ (r.sticky \/ MagOdd(r.q)) THEN Carry(MagInc(r.q), r.e)
    ELSE [q |-> r.q, e |-> r.e]

\* A lower bound of the binary exponent of the f64 nearest to n / 10^k, at
\* most 7 below it: from the number of digits (3.321 < log2(10) < 3.322),
\* and at least 0 when the integral part is 2^53 or more, MinExp otherwise.
StartExp(n, k) ==
    Max(IF Len(n) - k >= 16 /\ MagLeq(Pow2_53, Take(n, Len(n) - k)) THEN 0 ELSE MinExp,
        ((Len(n) - k - 1) * 3321) \div 1000 - 53)

\* The f64 nearest to n / 10^k, ties to even, found from the exponent e on.
dec2flt_from(n, k, e) ==
    RoundEven(F64Reduce(Shr(Scaled(MagShl(n, Max(0, 0 - e)), k, Min(e, 0)), Max(e, 0))))

\* str::parse::<f64> on the digits n with the last k of them behind the
\* point (n normalised and not zero): the f64 nearest to n / 10^k, ties to
\* even.  q = 0 is an underflow to zero and e > MaxExp an overflow to
\* infinity.
dec2flt(n, k) ==
    IF Len(n) - k > 310 THEN [q |-> Pow2_52, e |-> MaxExp + 1]
    ELSE IF Len(n) - k < 0 - 330 THEN [q |-> <<0>>, e |-> MinExp]
    ELSE dec2flt_from(n, k, StartExp(n, k))

\* The digits t with the point p places from the right (p > 0, t longer
\* than p) as integral and fractional digits.
PlacePadded(t, p) ==
    [ip |-> StripZeros(Take(t, Len(t) - p)),
     fp |-> StripTrailingZeros(Drop(t, Len(t) - p))]

\* The decimal d * 10^p as integral and fractional digits.
Place(d, p) ==
    IF p >= 0 THEN [ip |-> StripZeros(d \o Zeros(p)), fp |-> <<>>]
    ELSE PlacePadded(Zeros(1 - p - Len(d)) \o d, 0 - p)

\* The exact decimal expansion of q * 2^e: for e < 0 it is q * 10^-e
\* halved -e times, with the point -e places from the right.
ExactDecimal(b) ==
    IF b.e >= 0 THEN [ip |-> MagShl(b.q, b.e), fp |-> <<>>]
    ELSE Place(Shr([q |-> b.q \o Zeros(0 - b.e), e |-> 0, rnd |-> FALSE,
                    sticky |-> FALSE], 0 - b.e).q, b.e)

\* Whether the decimal c * 10^p reads back as the f64 b.
RoundTrips(c, p, b) == dec2flt(c \o Zeros(p), Max(0 - p, 0)) = b

\* Of the exact digits s, whether the decimal of n digits nearest to them
\* is the one above (ties to an even last digit).
RoundsUp(s, n) ==
    s[n + 1] > 5 \/ (s[n + 1] = 5 /\ (s[n] % 2 = 1 \/ \E i \in (n + 2)..Len(s) : s[i] # 0))

\* The first n digits of s (n < Len(s)), as they are or rounded up: the
\* nearer of the two when near holds, else the other.
Candidate(s, n, near) ==
    IF RoundsUp(s, n) = near THEN MagInc(Take(s, n)) ELSE Take(s, n)

\* Whether a decimal of n digits reads back as the f64 b, whose exact value
\* is s * 10^p.  Seventeen digits always do.
Fits(s, p, b, n) ==
    \/ n >= 17
    \/ n >= Len(s)
    \/ \E near \in BOOLEAN : RoundTrips(Candidate(s, n, near), Len(s) - n + p, b)

\* The least number of digits, from `from` on, of a decimal that reads back
\* as b.
ShortestLen(s, p, b, from) == Least({n \in from..17 : Fits(s, p, b, n)})

\* Of the two decimals of n digits next to the exact value s * 10^p, the
\* nearer one if it reads back as b, else the other; the exact value when
\* it has no more than n digits.
ShortestAt(s, p, b, n) ==
    IF n >= Len(s) THEN [d |-> s, p |-> p]
    ELSE [d |-> Candidate(s, n, n >= 17 \/ RoundTrips(Candidate(s, n, TRUE), Len(s) - n + p, b)),
          p |-> Len(s) - n + p]

\* ryu's d2d, the shortest decimal that reads back as the f64 b whose exact
\* value is s * 10^p, the nearest to the exact value among the shortest.
\* No distinct decimals of up to 15 digits read as one normal f64, so for a
\* normal f64 the search starts at 15 digits and an outcome of 15 digits is
\* cut short by its trailing zeros.  The result is [d, p], the decimal
\* d * 10^p.
Shortest(s, p, b) ==
    ShortestAt(s, p, b, ShortestLen(s, p, b, IF MagLess(b.q, Pow2_52) THEN 1 ELSE 15))

\* The shortest digits of the finite f64 whose exact value is ip.fp.
ShortestOf(ip, fp, b) == Shortest(StripZeros(ip \o fp), 0 - Len(fp), b)

\* The sign neg on the decimal x.
Signed(neg, x) == [neg |-> neg, ip |-> x.ip, fp |-> x.fp]

\* The shortest decimal d * 10^p with its point placed.
PlaceShortest(c) == Place(c.d, c.p)

\* The finite f64 b, whose exact value is x, with the sign neg as its
\* record.
OfExact(neg, b, x) ==
    IF x.fp = <<>> THEN Signed(neg, x)
    ELSE Signed(neg, PlaceShortest(ShortestOf(x.ip, x.fp, b)))

\* The f64 b with the sign neg as its record.
OfBinary(neg, b) ==
    IF b.q = <<0>> THEN [neg |-> neg, ip |-> <<0>>, fp |-> <<>>]
    ELSE IF b.e > MaxExp THEN Inf(neg)
    ELSE OfExact(neg, b, ExactDecimal(b))

\* The number of digits of ip.fp from its first non-zero digit on (ip and
\* fp normalised, fp not empty).
SigDigits(ip, fp) ==
    IF ip # <<0>> THEN Len(ip) + Len(fp)
    ELSE Len(fp) - (FirstAt(fp, LAMBDA i : fp[i] # 0) - 1)

\* F64 on normalised digits.
F64Normal(neg, i, f) ==
    IF f = <<>> /\ MagLeq(i, Pow2_53) THEN [neg |-> neg, ip |-> i, fp |-> <<>>]
    ELSE IF f # <<>> /\ SigDigits(i, f) <= 15 /\ Len(f) <= 300
    THEN [neg |-> neg, ip |-> i, fp |-> f]
    ELSE OfBinary(neg, dec2flt(StripZeros(i \o f), Len(f)))

\* The f64 nearest to the decimal sign/ip/fp, ties to even.  An integer of
\* at most 2^53 is an f64; a decimal of at most 15 significant digits that
\* is far from the ends of the exponent range is the shortest decimal of
\* the f64 nearest to it (DBL_DIG); anything else is converted.
F64(neg, ip, fp) == F64Normal(neg, StripZeros(ip), StripTrailingZeros(fp))

\* f64::trunc: the fraction is dropped.
trunc(x) == [neg |-> x.neg /\ x.ip # <<0>>, mag |-> x.ip]

\* f64::round: to the nearest integer, ties away from zero.  The result is
\* an integer [neg, mag].
round(x) ==
    Bind(IF x.fp # <<>> /\ x.fp[1] >= 5 THEN MagInc(x.ip) ELSE x.ip, LAMBDA m :
        [neg |-> x.neg /\ m # <<0>>, mag |-> m])

\* `as i64` that does not saturate.
as_i64_unbounded(n) == n

\* `as i64` on an integral f64: saturating.
as_i64(n) ==
    IF n.neg THEN (IF MagLess(I64MinMag, n.mag) THEN [neg |-> TRUE, mag |-> I64MinMag] ELSE n)
    ELSE (IF MagLess(I64Max, n.mag) THEN [neg |-> FALSE, mag |-> I64Max] ELSE n)

\* `as u64` that drops the sign of a negative number.
as_u64_magnitude(n) ==
    IF MagLess(U64Max, n.mag) THEN [neg |-> FALSE, mag |-> U64Max]
    ELSE [neg |-> FALSE, mag |-> n.mag]

\* `as u64` on an integral f64: saturating, negatives give 0.
as_u64(n) ==
    IF n.neg THEN [neg |-> FALSE, mag |-> <<0>>]
    ELSE IF MagLess(U64Max, n.mag) THEN [neg |-> FALSE, mag |-> U64Max]
    ELSE n

\* try_from that checks the upper bound only.
try_from_upper(n, minMag, max) ==
    IF n.neg \/ MagLeq(n.mag, max) THEN [ok |-> TRUE, val |-> n]
    ELSE [ok |-> FALSE, val |-> "error"]

\* <width>::try_from: TryFromIntError when out of range.
try_from(n, minMag, max) ==
    IF n.neg THEN (IF MagLeq(n.mag, minMag) THEN [ok |-> TRUE, val |-> n]
                   ELSE [ok |-> FALSE, val |-> "error"])
    ELSE (IF MagLeq(n.mag, max) THEN [ok |-> TRUE, val |-> n]
          ELSE [ok |-> FALSE, val |-> "error"])

\* ------------------------------------------------------------------------
\* Lexical primitives (src/src/parser.rs, the free functions de.rs calls)
\* ------------------------------------------------------------------------

\* take_till1(|c| c.is_whitespace()): a non-empty run of non-white-space.
token(i) ==
    LET n == SpanNotIn(i, WhitespaceChars)
    IN  IF n = 0 THEN Err(i) ELSE Ok(Drop(i, n), Take(i, n))

unit(i) ==
    IF StartsWith(i, <<"n","u","l","l">>) THEN Ok(Drop(i, 4), "unit") ELSE Err(i)

boolean(i) ==
    IF StartsWith(i, <<"t","r","u","e">>) THEN Ok(Drop(i, 4), TRUE)
    ELSE IF StartsWith(i, <<"f","a","l","s","e">>) THEN Ok(Drop(i, 5), FALSE)
    ELSE Err(i)

\* Shift the decimal point of ip.fp by e places (e may be negative).
ShiftPoint(ip, fp, e) ==
    IF e >= 0
    THEN [ip |-> ip \o Take(fp \o Zeros(e - Len(fp)), e), fp |-> Drop(fp, e)]
    ELSE Bind(Zeros(0 - e - Len(ip)) \o ip, LAMBDA t :
             [ip |-> Take(t, Len(t) + e), fp |-> Drop(t, Len(t) + e) \o fp])

RECURSIVE NatOfDigits(_, _)
NatOfDigits(ds, acc) ==
    IF ds = <<>> THEN acc ELSE NatOfDigits(Tail(ds), 10 * acc + DigitVal(Head(ds)))

\* The greatest exponent that is told from the ones above it: a mantissa
\* of fewer than MaxShift - 400 digits with an exponent beyond MaxShift
\* overflows or underflows whatever the exponent is.
MaxShift == 2000

\* The exponent digits ds as a number, at most MaxShift.
ExponentOf(ds) ==
    Bind(SubSeq(ds, FirstAt(ds, LAMBDA i : ds[i] # "0"), Len(ds)), LAMBDA d :
        IF Len(d) > 4 THEN MaxShift ELSE Min(MaxShift, NatOfDigits(d, 0)))

\* The mantissa of nom's recognize_float, digit+ ('.' digit*)? | '.' digit+,
\* at a: its integral and fractional digits and the input behind it.
Mantissa(a) ==
    Bind(SpanIn(a, DigitChars), LAMBDA ni :
    Bind(Drop(a, ni), LAMBDA b :
    Bind(IF b # <<>> /\ Head(b) = "." THEN 1 ELSE 0, LAMBDA dot :
    Bind(IF dot = 1 THEN SpanIn(Tail(b), DigitChars) ELSE 0, LAMBDA nf :
        [ok |-> ni > 0 \/ (dot = 1 /\ nf > 0),
         ip |-> Mag(Take(a, ni)),
         fp |-> Mag(SubSeq(b, 2, dot + nf)),
         rem |-> Drop(b, dot + nf)]))))

\* The exponent of recognize_float, ([eE] [+-]? cut(digit1))?, at c: has is
\* whether an e is there, ok that digits follow it, e the exponent.
Exponent(c) ==
    IF c = <<>> \/ Head(c) \notin {"e", "E"}
    THEN [has |-> FALSE, ok |-> TRUE, e |-> 0, rem |-> c]
    ELSE Bind(IF Len(c) > 1 /\ c[2] \in {"+", "-"} THEN 1 ELSE 0, LAMBDA esg :
         Bind(SpanIn(Drop(c, 1 + esg), DigitChars), LAMBDA ne :
         Bind(ExponentOf(SubSeq(c, 2 + esg, 1 + esg + ne)), LAMBDA ev :
             [has |-> TRUE, ok |-> ne > 0,
              e |-> IF esg = 1 /\ c[2] = "-" THEN 0 - ev ELSE ev,
              rem |-> Drop(c, 1 + esg + ne)])))

\* tag_no_case on ASCII letters: t is in lower case.
tag_no_case(i, t) ==
    /\ Len(i) >= Len(t)
    /\ \A n \in 1..Len(t) : i[n] \in {t[n], Upper(t[n])}

\* nom's recognize_float,
\*   [+-]? ( digit+ ( '.' digit* )? | '.' digit+ ) ( [eE] [+-]? cut(digit1) )?
\* read with str::parse::<f64>: the value is the f64 nearest to the
\* literal, with the sign of the literal also on a zero.  A mantissa
\* followed by [eE] without exponent digits is a Failure.
recognize_float(i) ==
    Bind(IF i # <<>> /\ Head(i) \in {"+", "-"} THEN 1 ELSE 0, LAMBDA sgn :
    Bind(Mantissa(Drop(i, sgn)), LAMBDA m :
    Bind(Exponent(m.rem), LAMBDA x :
        IF ~m.ok THEN Err(i)
        ELSE IF ~x.ok THEN Failure(i)
        ELSE Bind(ShiftPoint(m.ip, m.fp, x.e), LAMBDA sh :
                 Ok(x.rem, F64(sgn = 1 /\ Head(i) = "-", sh.ip, sh.fp))))))

\* nom's recognize_float_or_exceptions, read with str::parse::<f64>: the
\* alt of recognize_float (its result is r), tag_no_case("nan"),
\* tag_no_case("inf") and tag_no_case("infinity") in this order, so that of
\* "infinity" only "inf" is taken.
recognize_float_or_exceptions(i, r) ==
    IF r.ok \/ is_failure(r) THEN r
    ELSE IF tag_no_case(i, <<"n", "a", "n">>) THEN Ok(Drop(i, 3), NaN)
    ELSE IF tag_no_case(i, <<"i", "n", "f">>) THEN Ok(Drop(i, 3), Inf(FALSE))
    ELSE IF tag_no_case(i, <<"i", "n", "f", "i", "n", "i", "t", "y">>)
    THEN Ok(Drop(i, 8), Inf(FALSE))
    ELSE Err(i)

\* float: nom's double
float(i) == recognize_float_or_exceptions(i, recognize_float(i))

\* delimited(tag("\""), take_till(|c| c == '"'), tag("\"")): no escapes.
string(i) ==
    IF i = <<>> \/ Head(i) # "\"" THEN Err(i)
    ELSE LET n == SpanNotIn(Tail(i), {"\""})
         IN  IF n = Len(i) - 1 THEN Err(i)
             ELSE Ok(Drop(i, n + 2), SubSeq(i, 2, n + 1))

\* map(multispace1, ..)
whitespace(i) ==
    LET n == SpanIn(i, MultispaceChars)
    IN  IF n = 0 THEN Err(i) ELSE Ok(Drop(i, n), "ignored")

comma(i) == IF StartsWith(i, <<",">>) THEN Ok(Tail(i), "ignored") ELSE Err(i)

\* pair(tag("//"), is_not("\r\n")): is_not needs at least one character.
line_comment(i) ==
    IF ~StartsWith(i, <<"/", "/">>) THEN Err(i)
    ELSE LET n == SpanNotIn(Drop(i, 2), {"\r", "\n"})
         IN  IF n = 0 THEN Err(i) ELSE Ok(Drop(i, 2 + n), "ignored")

\* tuple((tag("/*"), take_until("*/"), tag("*/")))
block_comment(i) ==
    IF ~StartsWith(i, <<"/", "*">>) THEN Err(i)
    ELSE LET n == FindSub(Drop(i, 2), <<"*", "/">>)
         IN  IF n < 0 THEN Err(i) ELSE Ok(Drop(i, 2 + n + 2), "ignored")

\* alt((line_comment, block_comment, comma, whitespace)): the first that
\* succeeds.
alt_ignored(i) ==
    IF line_comment(i).ok THEN line_comment(i)
    ELSE IF block_comment(i).ok THEN block_comment(i)
    ELSE IF comma(i).ok THEN comma(i) ELSE whitespace(i)

\* many0(alt_ignored): never fails.
RECURSIVE all_ignored(_)
all_ignored(i) ==
    IF alt_ignored(i).ok THEN all_ignored(alt_ignored(i).rem) ELSE Ok(i, "ignored")

\* alt((map(string, ..), map(token, ..)))
key(i) == IF string(i).ok THEN string(i) ELSE token(i)

\* The result r of recognize_float unless it is infinite.
finite_number(i, r) == IF r.ok /\ is_finite(r.val) THEN r ELSE Err(i)

\* The number recognizer de.rs calls as parser::number: a decimal float
\* read into an f64; a literal beyond the range of f64 is an error.
number(i) == finite_number(i, recognize_float(i))

\* ------------------------------------------------------------------------
\* Deserializer (src/src/de.rs)
\*
\* The deserializer state is st = [input, depth].  Every operation returns
\* [ok, val, input, depth]: the outcome and the state it leaves behind (on
\* an error, the state at the point where the error was raised).
\*
\* The target type T of from_str::<T> is a descriptor t with t.k one of
\*   "unit" "unit_struct" "bool" "int" (bits, signed) "f64" "string" "char"
\*   "option" (t) "newtype_struct" (t) "vec" (t) "tuple" (ts)
\*   "map" (kt, vt) "struct" (fields: <<[name, t]>>)
\*   "enum" (variants: <<[name, kind, ...]>>) "ignored_any"
\* and stands for the Deserialize implementation serde provides or derives
\* for T, i.e. the visitor that drives the calls below.
\* ------------------------------------------------------------------------

St(input, depth) == [input |-> input, depth |-> depth]

StOf(r) == [input |-> r.input, depth |-> r.depth]

Done(v, st) == [ok |-> TRUE, val |-> v, input |-> st.input, depth |-> st.depth]

Fail(st) == [ok |-> FALSE, val |-> "error", input |-> st.input, depth |-> st.depth]

\* An Option result of next_element_seed / next_key_seed: val is <<>> for
\* None and <<x>> for Some(x).
NoneAt(st) == Done(<<>>, st)

SomeAt(v, st) == Done(<<v>>, st)

Deeper(st) == [st EXCEPT !.depth = st.depth + 1]

Shallower(st) == [st EXCEPT !.depth = st.depth - 1]

parse_ws(st) == [st EXCEPT !.input = all_ignored(st.input).rem]

\* The `?` operator, `let r = e?; k(r)`: an error is returned as it is.
Try(r, K(_)) == IF r.ok THEN K(r) ELSE r

\* A parse_* method that takes a character off the input when it fails.
Lift_consuming(r, st) ==
    IF r.ok THEN Done(r.val, [st EXCEPT !.input = r.rem])
    ELSE Fail([st EXCEPT !.input = Drop(st.input, 1)])

\* A parse_* method: the cursor moves only on success.
Lift(r, st) == IF r.ok THEN Done(r.val, [st EXCEPT !.input = r.rem]) ELSE Fail(st)

parse_unit(st) == Lift(unit(st.input), st)

parse_bool(st) == Lift(boolean(st.input), st)

parse_number(st) == Lift(number(st.input), st)

parse_string(st) == Lift(string(st.input), st)

parse_key(st) == Lift(key(st.input), st)

\* take(): the first character, consumed; an error at end of input.
take(st) ==
    IF st.input = <<>> THEN Fail(st)
    ELSE Done(Head(st.input), [st EXCEPT !.input = Tail(st.input)])

IntMinMag(t) ==
    IF ~t.signed THEN <<0>>
    ELSE CASE t.bits = 8 -> I8MinMag [] t.bits = 16 -> I16MinMag
           [] t.bits = 32 -> I32MinMag [] t.bits = 64 -> I64MinMag

IntMax(t) ==
    IF t.signed
    THEN CASE t.bits = 8 -> I8Max [] t.bits = 16 -> I16Max
           [] t.bits = 32 -> I32Max [] t.bits = 64 -> I64Max
    ELSE CASE t.bits = 8 -> U8Max [] t.bits = 16 -> U16Max
           [] t.bits = 32 -> U32Max [] t.bits = 64 -> U64Max

\* The cast every integer target applies to the rounded number.
cast64(t, n) == IF t.signed THEN as_i64(n) ELSE as_u64(n)

\* deserialize_i8 .. deserialize_u64
deserialize_int(t, st) ==
    Try(parse_number(st), LAMBDA p :
        Bind(cast64(t, round(p.val)), LAMBDA w :
            IF t.bits = 64 THEN Done(w, StOf(p))
            ELSE IF try_from(w, IntMinMag(t), IntMax(t)).ok THEN Done(w, StOf(p))
            ELSE Fail(StOf(p))))

deserialize_f64(st) == parse_number(st)

\* deserialize_str / deserialize_string
deserialize_str(st) == parse_string(st)

\* serde's char visitor accepts a string only if it holds exactly one
\* character.
visit_char(p) == IF Len(p.val) # 1 THEN Fail(StOf(p)) ELSE p

\* deserialize_char
deserialize_char(st) == Try(parse_string(st), LAMBDA p : visit_char(p))

deserialize_unit(st) == parse_unit(st)

\* deserialize_identifier
deserialize_identifier(st) == parse_key(st)

\* Index of the entry called name in a sequence of [name |-> ..] records,
\* or 0.
RECURSIVE IndexOfName(_, _, _)
IndexOfName(entries, name, i) ==
    IF i > Len(entries) THEN 0
    ELSE IF entries[i].name = name THEN i
    ELSE IndexOfName(entries, name, i + 1)

RECURSIVE Deserialize(_, _)
RECURSIVE deserialize_any(_)
RECURSIVE deserialize_option(_, _)
RECURSIVE deserialize_seq(_, _)
RECURSIVE deserialize_map(_, _)
RECURSIVE deserialize_enum(_, _)
RECURSIVE visit_seq(_, _, _)
RECURSIVE visit_map(_, _, _)
RECURSIVE visit_enum(_, _)
RECURSIVE next_element_seed(_, _)
RECURSIVE next_key_seed(_, _)
RECURSIVE next_value_seed(_, _)
RECURSIVE KeyDeserialize(_, _)
RECURSIVE newtype_variant_seed(_, _)
RECURSIVE tuple_variant(_, _)
RECURSIVE struct_variant(_, _)

\* SeqAccess::next_element_seed
next_element_seed(t, st) ==
    Bind(parse_ws(st), LAMBDA s1 :
        IF s1.input = <<>> THEN Fail(s1)
        ELSE IF Head(s1.input) = "]" THEN NoneAt(s1)
        ELSE Try(Deserialize(t, s1), LAMBDA r : SomeAt(r.val, parse_ws(StOf(r)))))

\* The KeyDeserializer: strings and chars are read with parse_key, every
\* other request is forwarded to the Deserializer.
KeyDeserialize(t, st) ==
    CASE t.k = "string" -> parse_key(st)
      [] t.k = "char" -> Try(parse_key(st), LAMBDA p : visit_char(p))
      [] t.k = "identifier" -> deserialize_identifier(st)
      [] OTHER -> Deserialize(t, st)

\* MapAccess::next_key_seed
next_key_seed(t, st) ==
    Bind(parse_ws(st), LAMBDA s1 :
        IF s1.depth > 1 /\ s1.input = <<>> THEN Fail(s1)
        ELSE IF s1.depth > 1 /\ Head(s1.input) = "}" THEN NoneAt(s1)
        ELSE Bind(KeyDeserialize(t, s1), LAMBDA r :
                 IF r.ok THEN SomeAt(r.val, parse_ws(StOf(r)))
                 ELSE IF r.depth < 2 THEN NoneAt(parse_ws(StOf(r)))
                 ELSE r))

\* MapAccess::next_value_seed
next_value_seed(t, st) ==
    Try(Deserialize(t, parse_ws(st)), LAMBDA r : Done(r.val, parse_ws(StOf(r))))

\* The type of the next element a visit_seq asks for, acc being the
\* elements taken so far.
ElemType(vis, acc) ==
    CASE vis.k = "tuple" -> vis.ts[Len(acc) + 1]
      [] vis.k = "vec" -> vis.t
      [] OTHER -> vis

\* The visitor's visit_seq.  vis.k = "vec": serde's Vec<T> visitor takes
\* elements until next_element returns None.  vis.k = "tuple": a tuple or
\* tuple-struct visitor takes exactly Len(vis.ts) elements, an earlier None
\* being an invalid-length error, and then returns.  "ignored_any" takes
\* and drops every element.
visit_seq(vis, st, acc) ==
    IF vis.k = "tuple" /\ Len(acc) = Len(vis.ts) THEN Done(acc, st)
    ELSE Try(next_element_seed(ElemType(vis, acc), st), LAMBDA r :
             IF r.val = <<>>
             THEN (IF vis.k = "tuple" THEN Fail(StOf(r)) ELSE Done(acc, StOf(r)))
             ELSE visit_seq(vis, StOf(r),
                            IF vis.k = "ignored_any" THEN acc ELSE acc \o r.val))

\* deserialize_seq / deserialize_tuple / deserialize_tuple_struct
deserialize_seq(vis, st) ==
    Try(take(st), LAMBDA o :
        IF o.val # "[" THEN Fail(StOf(o))
        ELSE Try(visit_seq(vis, Deeper(StOf(o)), <<>>), LAMBDA r :
                 Try(take(Shallower(StOf(r))), LAMBDA c :
                     IF c.val = "]" THEN Done(r.val, parse_ws(StOf(c)))
                     ELSE Fail(StOf(c)))))

\* Insert or overwrite key k of the association list m.
RECURSIVE Put(_, _, _)
Put(m, k, v) ==
    IF m = <<>> THEN << <<k, v>> >>
    ELSE IF Head(m)[1] = k THEN << <<k, v>> >> \o Tail(m)
    ELSE <<Head(m)>> \o Put(Tail(m), k, v)

\* What a derived struct visitor returns once the keys are exhausted: a
\* field never seen is None when its type is an Option and a missing-field
\* error otherwise.
RECURSIVE FinishStruct(_, _, _)
FinishStruct(fields, slots, i) ==
    IF i > Len(fields) THEN [ok |-> TRUE, val |-> <<>>]
    ELSE Try(FinishStruct(fields, slots, i + 1), LAMBDA rest :
             IF slots[i] # <<>>
             THEN [ok |-> TRUE, val |-> <<slots[i][1]>> \o rest.val]
             ELSE IF fields[i].t.k = "option"
             THEN [ok |-> TRUE, val |-> << <<>> >> \o rest.val]
             ELSE [ok |-> FALSE, val |-> "error"])

\* The derived struct visitor's step for the field identifier name, read
\* at kr: a duplicate field is an error, an unknown field's value is read
\* as IgnoredAny, a known field's value fills slot i of acc.
visit_field(vis, kr, acc, i) ==
    IF i # 0 /\ acc[i] # <<>> THEN Fail(StOf(kr))
    ELSE Try(next_value_seed(IF i = 0 THEN [k |-> "ignored_any"] ELSE vis.fields[i].t,
                             StOf(kr)),
             LAMBDA vr : visit_map(vis, StOf(vr),
                                   IF i = 0 THEN acc ELSE [acc EXCEPT ![i] = <<vr.val>>]))

\* The type of the keys a visit_map asks for.
KeyType(vis) ==
    CASE vis.k = "struct" -> [k |-> "identifier"]
      [] vis.k = "map" -> vis.kt
      [] OTHER -> vis

\* The visitor's visit_map.  vis.k = "map": serde's map visitor inserts
\* entries until next_key returns None, a repeated key overwriting.
\* vis.k = "struct": the derived visitor reads field identifiers and
\* checks for missing fields at the end; acc holds one slot per field,
\* <<>> until the field is seen.  "ignored_any" reads keys and values as
\* IgnoredAny.
visit_map(vis, st, acc) ==
    Try(next_key_seed(KeyType(vis), st), LAMBDA kr :
        IF kr.val = <<>>
        THEN (IF vis.k = "struct"
              THEN Bind(FinishStruct(vis.fields, acc, 1), LAMBDA f :
                        IF f.ok THEN Done(f.val, StOf(kr)) ELSE Fail(StOf(kr)))
              ELSE Done(acc, StOf(kr)))
        ELSE IF vis.k = "struct"
        THEN visit_field(vis, kr, acc, IndexOfName(vis.fields, kr.val[1], 1))
        ELSE Try(next_value_seed(IF vis.k = "map" THEN vis.vt ELSE vis, StOf(kr)),
                 LAMBDA vr : visit_map(vis, StOf(vr),
                                       IF vis.k = "map" THEN Put(acc, kr.val[1], vr.val)
                                       ELSE acc)))

EmptySlots(vis) ==
    IF vis.k = "struct" THEN [i \in 1..Len(vis.fields) |-> <<>>] ELSE <<>>

\* deserialize_map / deserialize_struct
deserialize_map(vis, st) ==
    IF st.depth < 1
    THEN Try(visit_map(vis, Deeper(st), EmptySlots(vis)), LAMBDA r :
             Done(r.val, Shallower(StOf(r))))
    ELSE Try(take(st), LAMBDA o :
             IF o.val # "{" THEN Fail(StOf(o))
             ELSE Try(visit_map(vis, Deeper(StOf(o)), EmptySlots(vis)), LAMBDA r :
                      Try(take(Shallower(StOf(r))), LAMBDA c :
                          IF c.val = "}" THEN Done(r.val, parse_ws(StOf(c)))
                          ELSE Fail(StOf(c)))))

\* VariantAccess::newtype_variant_seed
newtype_variant_seed(t, st) ==
    Try(Deserialize(t, parse_ws(st)), LAMBDA r : Done(r.val, parse_ws(StOf(r))))

\* VariantAccess::tuple_variant
tuple_variant(ts, st) == deserialize_seq([k |-> "tuple", ts |-> ts], parse_ws(st))

\* VariantAccess::struct_variant
struct_variant(fields, st) ==
    deserialize_map([k |-> "struct", fields |-> fields], parse_ws(st))

\* The derived enum visitor's dispatch on the variant v, the cursor being
\* behind its name: the payload is requested through VariantAccess
\* (unit_variant always fails: a unit variant must be a quoted string).
visit_variant(v, st) ==
    Try(CASE v.kind = "unit" -> Fail(st)
          [] v.kind = "newtype" -> newtype_variant_seed(v.t, st)
          [] v.kind = "tuple" -> tuple_variant(v.ts, st)
          [] v.kind = "struct" -> struct_variant(v.fields, st),
        LAMBDA r : Done([variant |-> v.name, v |-> r.val], StOf(r)))

\* EnumAccess::variant_seed followed by the derived visitor: the name is
\* read with deserialize_identifier, an unknown name is an error.
visit_enum(variants, st) ==
    Try(deserialize_identifier(parse_ws(st)), LAMBDA n :
        Bind(IndexOfName(variants, n.val, 1), LAMBDA i :
            IF i = 0 THEN Fail(StOf(n)) ELSE visit_variant(variants[i], StOf(n))))

\* serde's StringDeserializer as the enum access of the string form: it
\* knows unit variants only.
visit_enum_str(variants, p) ==
    Bind(IndexOfName(variants, p.val, 1), LAMBDA i :
        IF i # 0 /\ variants[i].kind = "unit"
        THEN Done([variant |-> p.val, v |-> <<>>], StOf(p))
        ELSE Fail(StOf(p)))

\* deserialize_enum that reads the brace-less form at every depth.
deserialize_enum_no_depth(variants, st) ==
    IF st.input = <<>> THEN Fail(st)
    ELSE IF Head(st.input) = "\""
    THEN Try(parse_string(st), LAMBDA p : visit_enum_str(variants, p))
    ELSE Try(visit_enum(variants, Deeper(st)), LAMBDA r :
             Done(r.val, Shallower(StOf(r))))

\* deserialize_enum.  A leading quote selects the string form.
deserialize_enum(variants, st) ==
    IF st.input = <<>> THEN Fail(st)
    ELSE IF Head(st.input) = "\""
    THEN Try(parse_string(st), LAMBDA p : visit_enum_str(variants, p))
    ELSE IF st.depth < 1
    THEN Try(visit_enum(variants, Deeper(st)), LAMBDA r :
             Done(r.val, Shallower(StOf(r))))
    ELSE Try(take(st), LAMBDA o :
             IF o.val # "{" THEN Fail(StOf(o))
             ELSE Try(visit_enum(variants, Deeper(StOf(o))), LAMBDA r :
                      Try(take(Shallower(StOf(r))), LAMBDA c :
                          IF c.val = "}" THEN Done(r.val, StOf(c))
                          ELSE Fail(StOf(c)))))

\* deserialize_option
deserialize_option(t, st) ==
    IF st.input = <<>> THEN Fail(st)
    ELSE IF Head(st.input) = "n"
    THEN Try(parse_unit(st), LAMBDA u : NoneAt(StOf(u)))
    ELSE Try(Deserialize(t, st), LAMBDA r : SomeAt(r.val, StOf(r)))

\* deserialize_any / deserialize_ignored_any, driven by serde's IgnoredAny
\* visitor, which accepts every shape and keeps nothing.
deserialize_any(st) ==
    IF st.input = <<>> THEN Fail(st)
    ELSE Try(CASE Head(st.input) \in {"t", "f"} -> parse_bool(st)
               [] Head(st.input) \in DigitChars \cup {"-"} -> deserialize_f64(st)
               [] Head(st.input) \in {"\"", "'"} -> deserialize_str(st)
               [] Head(st.input) = "{" -> deserialize_map([k |-> "ignored_any"], st)
               [] Head(st.input) = "[" -> deserialize_seq([k |-> "ignored_any"], st)
               [] OTHER -> Fail(st),
             LAMBDA r : Done("ignored", StOf(r)))

\* T::deserialize(&mut deserializer): the request each target type makes.
Deserialize(t, st) ==
    CASE t.k \in {"unit", "unit_struct"} -> deserialize_unit(st)
      [] t.k = "bool" -> parse_bool(st)
      [] t.k = "int" -> deserialize_int(t, st)
      [] t.k = "f64" -> deserialize_f64(st)
      [] t.k = "string" -> deserialize_str(st)
      [] t.k = "char" -> deserialize_char(st)
      [] t.k = "option" -> deserialize_option(t.t, st)
      [] t.k = "newtype_struct" -> Deserialize(t.t, st)
      [] t.k \in {"vec", "tuple"} -> deserialize_seq(t, st)
      [] t.k \in {"map", "struct"} -> deserialize_map(t, st)
      [] t.k = "enum" -> deserialize_enum(t.variants, st)
      [] t.k = "ignored_any" -> deserialize_any(st)

\* from_str without the check that the input is used up.
from_str_unchecked(t, s) == Deserialize(t, St(s, 0))

\* from_str
from_str(t, s) ==
    Try(Deserialize(t, St(s, 0)), LAMBDA r :
        IF r.input = <<>> THEN r ELSE Fail(StOf(r)))

\* ------------------------------------------------------------------------
\* Serializer and pretty formatter (src/src/ser.rs)
\*
\* The serializer state is ser = [writer, indents, root_type]: the bytes
\* written so far and the DefaultFormatter's two fields.  A value of type
\* t is: "unit" for unit types, a BOOLEAN, an integer [neg, mag], an f64
\* [neg, ip, fp], a text for strings and chars, <<>> or <<x>> for an
\* option, a sequence for vec / tuple / struct (the fields in declaration
\* order), an association list << <<key, value>>, .. >> for a map, and
\* [variant, v] for an enum.
\* ------------------------------------------------------------------------

\* const INDENT
INDENT == <<" ", " ", " ", " ">>

\* Serializer::new: an empty writer and DefaultFormatter::default().  step
\* is what one indent adds to indents: 1 for the DefaultFormatter.
NewSerializer ==
    [writer |-> <<>>, indents |-> 0, root_type |-> "None", step |-> 1, ok |-> TRUE]

\* A Serializer whose formatter is a CompactFormatter with no root type
\* yet.  Its indent and unindent do nothing and its get_indent is always
\* 0: indents stays 0 because its step is 0.
CompactSerializer ==
    [writer |-> <<>>, indents |-> 0, root_type |-> "None", step |-> 0, ok |-> TRUE]

\* Once a call has returned an error (ok is FALSE) every caller returns it
\* with `?`: what stands behind the failed call in the code is not run, so
\* the operations below leave a failed serializer as it is.
Write(ser, bytes) == [ser EXCEPT !.writer = IF ser.ok THEN @ \o bytes ELSE @]

\* indent: DefaultFormatter adds 1, CompactFormatter nothing.
indent(ser) == [ser EXCEPT !.indents = IF ser.ok THEN @ + ser.step ELSE @]

\* unindent: DefaultFormatter takes 1 off, CompactFormatter nothing.
unindent(ser) == [ser EXCEPT !.indents = IF ser.ok THEN @ - ser.step ELSE @]

\* Err(Error::SerdeError("explode!")): the call fails and nothing is
\* written.
explode(ser) == [ser EXCEPT !.ok = FALSE]

\* get_indent: the count of the DefaultFormatter, 0 for the
\* CompactFormatter.
get_indent(ser) == ser.indents

is_root_type_set(ser) == ser.root_type # "None"

set_root_type(ser, rt) == [ser EXCEPT !.root_type = IF ser.ok THEN rt ELSE @]

\* K applied to the serializer state ser, which is computed first (indents
\* is a usize).
Then(ser, K(_)) == IF ser.indents >= 0 THEN K(ser) ELSE ser

write_space(ser) == Write(ser, <<" ">>)

write_newline(ser) == Write(ser, <<"\n">>)

RECURSIVE Indents(_)
Indents(n) == IF n <= 0 THEN <<>> ELSE INDENT \o Indents(n - 1)

\* write_indent: `for _ in 1..amount`, i.e. amount - 1 indents.
write_indent(ser, amount) == Write(ser, Indents(amount - 1))

write_null(ser) == Write(ser, <<"n", "u", "l", "l">>)

write_bool(ser, value) ==
    Write(ser, IF value THEN <<"t", "r", "u", "e">> ELSE <<"f", "a", "l", "s", "e">>)

DigitText(m) == [i \in 1..Len(m) |-> DigitChar(m[i])]

\* The decimal digits of a natural number.
RECURSIVE NatText(_)
NatText(n) ==
    IF n < 10 THEN <<DigitChar(n)>> ELSE NatText(n \div 10) \o <<DigitChar(n % 10)>>

\* ryu's exponent form of the digits d at the decimal exponent x: 1e30,
\* 1.234e-7.
Scientific(d, x) ==
    <<DigitChar(d[1])>> \o (IF Len(d) > 1 THEN <<".">> \o DigitText(Tail(d)) ELSE <<>>)
        \o <<"e">> \o (IF x < 0 THEN <<"-">> \o NatText(0 - x) ELSE NatText(x))

\* ryu's format64 on the magnitude of a finite f64: the shortest decimal
\* that reads back as the same f64, with kk the place of its point.  It is
\* written without an exponent and with at least one fractional digit for
\* -5 < kk <= 16, else in the exponent form.
format64(x) ==
    IF x.fp = <<>> /\ Len(x.ip) > 16
    THEN Bind(Shortest(x.ip, 0, dec2flt(x.ip, 0)), LAMBDA c :
             Scientific(StripTrailingZeros(c.d), Len(c.d) + c.p - 1))
    ELSE IF x.ip = <<0>> /\ x.fp # <<>> /\ FirstAt(x.fp, LAMBDA i : x.fp[i] # 0) > 5
    THEN Bind(FirstAt(x.fp, LAMBDA i : x.fp[i] # 0), LAMBDA z :
             Scientific(Drop(x.fp, z - 1), 0 - z))
    ELSE DigitText(x.ip) \o <<".">>
             \o (IF x.fp = <<>> THEN <<"0">> ELSE DigitText(x.fp))

\* ryu::Buffer::format_finite
format_finite(x) == (IF x.neg THEN <<"-">> ELSE <<>>) \o format64(x)

write_number(ser, value) == Write(ser, format_finite(value))

\* write_key that leaves out the space behind the key.
write_key_no_space(ser, value) == Write(write_indent(ser, get_indent(ser)), value)

\* write_key
write_key(ser, value) == write_space(Write(write_indent(ser, get_indent(ser)), value))

\* begin_list
begin_list(ser) ==
    LET s1 == IF ~is_root_type_set(ser) THEN indent(set_root_type(ser, "List")) ELSE ser
        s2 == IF get_indent(s1) > 0 THEN Write(s1, <<"[", "\n">>) ELSE s1
    IN  indent(s2)

\* end_list that never writes the closing bracket.
end_list_unclosed(ser) == unindent(ser)

\* end_list
end_list(ser) ==
    LET s1 == unindent(ser)
    IN  IF get_indent(s1) > 0
        THEN Write(write_indent(s1, get_indent(s1)), <<"]">>)
        ELSE s1

\* begin_dict
begin_dict(ser) ==
    LET s1 == IF ~is_root_type_set(ser) THEN set_root_type(ser, "Dict") ELSE ser
        s2 == IF get_indent(s1) > 0 THEN Write(s1, <<"{", "\n">>) ELSE s1
    IN  indent(s2)

\* end_dict
end_dict(ser) ==
    LET s1 == unindent(ser)
    IN  IF get_indent(s1) > 0
        THEN Write(write_indent(s1, get_indent(s1)), <<"}">>)
        ELSE s1

\* `v as f64` for an integer v.
int_as_f64(v) == F64(v.neg, v.mag, <<>>)

\* serialize_i8 .. serialize_u64
serialize_int(ser, v) == write_number(ser, int_as_f64(v))

\* serialize_str (and serialize_char): the text between quotes, unescaped.
serialize_str(ser, v) == Write(Write(Write(ser, <<"\"">>), v), <<"\"">>)

\* serialize_unit_variant
serialize_unit_variant(ser, variant) == serialize_str(ser, variant)

RECURSIVE Serialize(_, _, _)
RECURSIVE serialize_elements(_, _, _)
RECURSIVE serialize_fields(_, _, _)
RECURSIVE serialize_entries(_, _, _)
RECURSIVE SerializeKey(_, _, _)

\* SerializeSeq::serialize_element over the elements vs of types ts.
serialize_elements(ts, vs, ser) ==
    IF vs = <<>> THEN ser
    ELSE Then(write_newline(Serialize(Head(ts), Head(vs),
                                      write_indent(ser, get_indent(ser)))),
              LAMBDA s : serialize_elements(Tail(ts), Tail(vs), s))

\* SerializeStruct::serialize_field over the fields.
serialize_fields(fields, vs, ser) ==
    IF vs = <<>> THEN ser
    ELSE Then(write_newline(Serialize(Head(fields).t, Head(vs),
                                      write_key(ser, Head(fields).name))),
              LAMBDA s : serialize_fields(Tail(fields), Tail(vs), s))

\* Whether the value v of type t is serialized with serialize_seq,
\* serialize_tuple, serialize_map, serialize_struct, serialize_tuple_variant
\* or serialize_struct_variant.
IsCompound(t, v) ==
    \/ t.k \in {"vec", "tuple", "map", "struct"}
    \/ /\ t.k = "enum"
       /\ t.variants[IndexOfName(t.variants, v.variant, 1)].kind \in {"tuple", "struct"}

\* key.serialize(KeySerializer): a str key goes through write_key, a
\* sequence, tuple, map, struct, tuple variant or struct variant is the
\* error "explode!", and every other key is forwarded to the Serializer.
SerializeKey(t, v, ser) ==
    IF t.k = "string" THEN write_key(ser, v)
    ELSE IF IsCompound(t, v) THEN explode(ser)
    ELSE Serialize(t, v, ser)

\* SerializeMap::serialize_entry over the entries.
serialize_entries(t, es, ser) ==
    IF es = <<>> THEN ser
    ELSE Then(write_newline(Serialize(t.vt, Head(es)[2],
                                      SerializeKey(t.kt, Head(es)[1], ser))),
              LAMBDA s : serialize_entries(t, Tail(es), s))

ElemTypes(t, v) == IF t.k = "vec" THEN [i \in 1..Len(v) |-> t.t] ELSE t.ts

\* serialize_newtype_variant that writes the payload alone.
serialize_newtype_variant_bare(vt, v, ser) == Serialize(vt.t, v, ser)

\* serialize_newtype_variant
serialize_newtype_variant(vt, v, ser) ==
    end_dict(write_newline(Serialize(vt.t, v, write_key(begin_dict(ser), vt.name))))

\* serialize_tuple_variant and SerializeTupleVariant::end
serialize_tuple_variant(vt, v, ser) ==
    end_dict(write_newline(end_list(
        serialize_elements(vt.ts, v, begin_list(write_key(begin_dict(ser), vt.name))))))

\* serialize_struct_variant and SerializeStructVariant::end
serialize_struct_variant(vt, v, ser) ==
    end_dict(write_newline(end_dict(
        serialize_fields(vt.fields, v, begin_dict(write_key(begin_dict(ser), vt.name))))))

\* value.serialize(&mut serializer): the calls each type's Serialize
\* implementation makes.
Serialize(t, v, ser) ==
    CASE t.k \in {"unit", "unit_struct"} -> write_null(ser)
      [] t.k = "bool" -> write_bool(ser, v)
      [] t.k = "int" -> serialize_int(ser, v)
      [] t.k = "f64" -> write_number(ser, v)
      [] t.k \in {"string", "char"} -> serialize_str(ser, v)
      [] t.k = "option" ->
            IF v = <<>> THEN write_null(ser) ELSE Serialize(t.t, v[1], ser)
      [] t.k = "newtype_struct" -> Serialize(t.t, v, ser)
      [] t.k \in {"vec", "tuple"} ->
            end_list(serialize_elements(ElemTypes(t, v), v, begin_list(ser)))
      [] t.k = "map" -> end_dict(serialize_entries(t, v, begin_dict(ser)))
      [] t.k = "struct" -> end_dict(serialize_fields(t.fields, v, begin_dict(ser)))
      [] t.k = "enum" ->
            LET vt == t.variants[IndexOfName(t.variants, v.variant, 1)]
            IN  CASE vt.kind = "unit" -> serialize_unit_variant(ser, vt.name)
                  [] vt.kind = "newtype" -> serialize_newtype_variant(vt, v.v, ser)
                  [] vt.kind = "tuple" -> serialize_tuple_variant(vt, v.v, ser)
                  [] vt.kind = "struct" -> serialize_struct_variant(vt, v.v, ser)

\* to_string that appends a newline whatever the output ends with.
to_string_ser_always(t, v) == write_newline(Serialize(t, v, NewSerializer))

\* to_string, as the serializer it leaves behind: a newline is appended
\* unless the output already ends with one.
to_string_ser(t, v) ==
    Bind(Serialize(t, v, NewSerializer), LAMBDA s :
        IF EndsWith(s.writer, <<"\n">>) THEN s ELSE write_newline(s))

\* The error KeySerializer returns.
SerdeError == [error |-> "explode!"]

\* What to_string returns when it leaves the serializer ser.
into_string(ser) == IF ser.ok THEN ser.writer ELSE SerdeError

\* to_string: the text written, or the error of value.serialize.
to_string(t, v) == into_string(to_string_ser(t, v))


\* ------------------------------------------------------------------------
\* Value parser (src/src/parser.rs, the Parser methods parse calls)
\*
\* A TotValue is [k |-> "Unit"], or [k, v] with k one of "Boolean" (v a
\* BOOLEAN), "Integer" (v an integer [neg, mag]), "Float" (v an f64),
\* "String" (v a text), "List" (v a sequence of TotValues) and "Dict" (v a
\* function from key texts to TotValues, the HashMap).
\* ------------------------------------------------------------------------

Unit == [k |-> "Unit"]
Boolean(v) == [k |-> "Boolean", v |-> v]
Integer(v) == [k |-> "Integer", v |-> v]
Float(v) == [k |-> "Float", v |-> v]
String(v) == [k |-> "String", v |-> v]
List(v) == [k |-> "List", v |-> v]
Dict(v) == [k |-> "Dict", v |-> v]

\* HashMap::from_iter over (key, value) pairs: a later pair replaces an
\* earlier one of the same key.
from_iter(pairs) ==
    [name \in {pairs[i][1] : i \in 1..Len(pairs)} |->
        pairs[CHOOSE i \in 1..Len(pairs) :
                /\ pairs[i][1] = name
                /\ \A j \in (i + 1)..Len(pairs) : pairs[j][1] # name][2]]

\* from_iter that keeps the first pair of a key.
from_iter_first(pairs) ==
    [name \in {pairs[i][1] : i \in 1..Len(pairs)} |->
        pairs[CHOOSE i \in 1..Len(pairs) :
                /\ pairs[i][1] = name
                /\ \A j \in 1..(i - 1) : pairs[j][1] # name][2]]

\* The end of integer: not(float), f being the result of float behind the
\* n digits, which hands on the Failure of float, and str::parse::<i64> (an
\* error when it overflows).
not_float(i, sgn, n, f) ==
    IF f.ok THEN Err(i)
    ELSE IF is_failure(f) THEN Failure(i)
    ELSE Bind(StripZeros(Mag(SubSeq(i, sgn + 1, sgn + n))), LAMBDA m :
             IF ~MagLeq(m, I64Max) THEN Err(i)
             ELSE Ok(Drop(i, sgn + n), [neg |-> sgn = 1 /\ m # <<0>>, mag |-> m]))

integer(i) ==
    Bind(IF i # <<>> /\ Head(i) = "-" THEN 1 ELSE 0, LAMBDA sgn :
    Bind(SpanIn(Drop(i, sgn), DigitChars), LAMBDA n :
        IF n = 0 THEN Err(i) ELSE not_float(i, sgn, n, float(Drop(i, sgn + n)))))

RECURSIVE scalar(_)
RECURSIVE list_many0(_)
RECURSIVE dict_many0(_)

\* One round of the many0 of list: with e the result of the next element
\* after the elements r.val, stop at the input before the element when it
\* failed, else take it and the ignored text after it and go on.  The
\* Failure of an element is the outcome of the many0.
list_element(r, e) ==
    IF ~e.ok THEN (IF is_failure(e) THEN e ELSE r)
    ELSE list_many0(Ok(all_ignored(e.rem).rem, Append(r.val, e.val)))

\* many0(delimited(all_ignored, scalar, all_ignored)) from r.rem on, r.val
\* being the elements taken so far.
list_many0(r) == list_element(r, scalar(all_ignored(r.rem).rem))

\* The closing tag("]") of list, after the elements r of the input i.
list_close(i, r) ==
    IF r.ok /\ StartsWith(r.rem, <<"]">>) THEN Ok(Tail(r.rem), List(r.val))
    ELSE IF is_failure(r) THEN r ELSE Err(i)

\* list: delimited(tag("["), map(many0(..), List), tag("]"))
list(i) ==
    IF ~StartsWith(i, <<"[">>) THEN Err(i)
    ELSE list_close(i, list_many0(Ok(Tail(i), <<>>)))

\* The end of key_value: the pair of the key kr and the value v, and the
\* ignored text after it.
pair_value(i, kr, v) ==
    IF ~v.ok THEN [v EXCEPT !.rem = i] ELSE Ok(all_ignored(v.rem).rem, <<kr.val, v.val>>)

\* separated_pair(key, all_ignored, scalar) after the key kr
pair_key(i, kr) ==
    IF ~kr.ok THEN Err(i) ELSE pair_value(i, kr, scalar(all_ignored(kr.rem).rem))

\* key_value: delimited(all_ignored, separated_pair(key, all_ignored,
\* scalar), all_ignored)
key_value(i) == pair_key(i, key(all_ignored(i).rem))

\* One round of the many0 of dict_contents, e being the next key_value.
dict_element(r, e) ==
    IF ~e.ok THEN (IF is_failure(e) THEN e ELSE r)
    ELSE dict_many0(Ok(e.rem, Append(r.val, e.val)))

\* many0(key_value) from r.rem on, r.val being the pairs taken so far.
dict_many0(r) == dict_element(r, key_value(r.rem))

\* |v| TotValue::Dict(HashMap::from_iter(v)) on the pairs r.val
collect(r) == IF r.ok THEN Ok(r.rem, Dict(from_iter(r.val))) ELSE r

\* collect with from_iter_first
collect_first(r) == IF r.ok THEN Ok(r.rem, Dict(from_iter_first(r.val))) ELSE r

\* dict_contents that keeps the first of several equal keys.
dict_contents_first(i) == collect_first(dict_many0(Ok(i, <<>>)))

\* dict_contents: map(many0(key_value), |v| Dict(HashMap::from_iter(v)))
dict_contents(i) == collect(dict_many0(Ok(i, <<>>)))

\* The closing tag("}") of dict, after the contents r of the input i.
dict_close(i, r) ==
    IF r.ok /\ StartsWith(r.rem, <<"}">>) THEN Ok(Tail(r.rem), r.val)
    ELSE IF is_failure(r) THEN r ELSE Err(i)

\* dict: delimited(tag("{"), dict_contents, tag("}"))
dict(i) ==
    IF ~StartsWith(i, <<"{">>) THEN Err(i) ELSE dict_close(i, dict_contents(Tail(i)))

\* The fourth and fifth alternative of scalar, float (its result is r) and
\* string.
scalar_float(i, r) ==
    IF r.ok THEN Ok(r.rem, Float(r.val))
    ELSE IF is_failure(r) THEN r
    ELSE IF string(i).ok THEN Ok(string(i).rem, String(string(i).val))
    ELSE Err(i)

\* The third alternative of scalar, integer (its result is r), and the ones
\* after it.
scalar_integer(i, r) ==
    IF r.ok THEN Ok(r.rem, Integer(r.val))
    ELSE IF is_failure(r) THEN r
    ELSE scalar_float(i, float(i))

\* The first five alternatives of scalar, each mapped to its TotValue:
\* unit, boolean, integer, float, string.  A Failure of integer or float
\* ends the alt.
scalar_leaf(i) ==
    IF unit(i).ok THEN Ok(unit(i).rem, Unit)
    ELSE IF boolean(i).ok THEN Ok(boolean(i).rem, Boolean(boolean(i).val))
    ELSE scalar_integer(i, integer(i))

\* The last two alternatives of scalar after the first five, whose result
\* is r: list fails at once on an input that does not start with "[", so
\* they are list on "[" and dict on anything else.
scalar_containers(i, r) ==
    IF r.ok \/ is_failure(r) THEN r
    ELSE IF StartsWith(i, <<"[">>) THEN list(i) ELSE dict(i)

\* scalar: alt((unit, boolean, integer, float, string, list, dict))
scalar(i) == scalar_containers(i, scalar_leaf(i))

\* The second alternative of parse: a bracketed list that uses up the input.
parse_list(i, l) == IF l.ok /\ l.rem = <<>> THEN Ok(<<>>, l.val) ELSE Err(i)

\* The first alternative of parse: a dict body d that uses up the input
\* (`if let Ok`: any error of it leads to the second alternative).
parse_dict(i, d) == IF d.ok /\ d.rem = <<>> THEN Ok(<<>>, d.val) ELSE parse_list(i, list(i))

\* parse: the document as a dict body, else as a bracketed list; either
\* must use up the input.
parse(i) == parse_dict(i, dict_contents(i))

\* ------------------------------------------------------------------------
\* Target types and values
\* ------------------------------------------------------------------------

TUnit == [k |-> "unit"]
TUnitStruct == [k |-> "unit_struct"]
TBool == [k |-> "bool"]
TString == [k |-> "string"]
TChar == [k |-> "char"]
TF64 == [k |-> "f64"]
TInt(signed, bits) == [k |-> "int", bits |-> bits, signed |-> signed]
TOption(t) == [k |-> "option", t |-> t]
TNewtype(t) == [k |-> "newtype_struct", t |-> t]
TVec(t) == [k |-> "vec", t |-> t]
TTuple(ts) == [k |-> "tuple", ts |-> ts]
TMap(kt, vt) == [k |-> "map", kt |-> kt, vt |-> vt]
TStruct(fields) == [k |-> "struct", fields |-> fields]
TEnum(variants) == [k |-> "enum", variants |-> variants]
Field(name, t) == [name |-> name, t |-> t]

IntWidths == {8, 16, 32, 64}

IntTypes == {TInt(s, b) : s \in BOOLEAN, b \in IntWidths}

IntV(neg, mag) == [neg |-> neg, mag |-> mag]

\* The types T that to_string::<T> and from_str::<T> are called at: those
\* of the end-to-end tests, and small types chosen to reach every serde
\* call of the serializer and of the deserializer (unit, newtype, tuple and
\* struct variants, nested structs, maps and sequences), written here as
\* the Rust declarations they stand for.

\* tests/e2e.rs, test_simple_struct:
\* struct Data { boolean: bool, integer: i32, string: String }
Data ==
    TStruct(<<Field(<<"b", "o", "o", "l", "e", "a", "n">>, TBool), Field(<<"i", "n", "t", "e", "g", "e", "r">>, TInt(TRUE, 32)),
              Field(<<"s", "t", "r", "i", "n", "g">>, TString)>>)

\* tests/e2e.rs, test_nested_struct:
\* struct Fields { key1: String, key2: String, key3: String }
Fields ==
    TStruct(<<Field(<<"k", "e", "y", "1">>, TString), Field(<<"k", "e", "y", "2">>, TString), Field(<<"k", "e", "y", "3">>, TString)>>)

\* tests/e2e.rs, test_nested_struct, where it is named Data as well:
\* struct Data { boolean: bool, fields: Fields }
NestedData == TStruct(<<Field(<<"b", "o", "o", "l", "e", "a", "n">>, TBool), Field(<<"f", "i", "e", "l", "d", "s">>, Fields)>>)

\* struct Flat { b: bool, i: i32, s: String }
Flat == TStruct(<<Field(<<"b">>, TBool), Field(<<"i">>, TInt(TRUE, 32)), Field(<<"s">>, TString)>>)

\* struct Leaf { k: String, n: i64 }
Leaf == TStruct(<<Field(<<"k">>, TString), Field(<<"n">>, TInt(TRUE, 64))>>)

\* struct Tree { b: bool, f: Leaf }
Tree == TStruct(<<Field(<<"b">>, TBool), Field(<<"f">>, Leaf)>>)

\* struct Empty {}
Empty == TStruct(<<>>)

\* enum Choice { U, N(bool), T(i8, bool), S { s: String } }
Choice ==
    TEnum(<< [name |-> <<"U">>, kind |-> "unit"],
             [name |-> <<"N">>, kind |-> "newtype", t |-> TBool],
             [name |-> <<"T">>, kind |-> "tuple", ts |-> <<TInt(TRUE, 8), TBool>>],
             [name |-> <<"S">>, kind |-> "struct", fields |-> <<Field(<<"s">>, TString)>>] >>)

\* enum Wrapped { W(Choice) }
Wrapped == TEnum(<< [name |-> <<"W">>, kind |-> "newtype", t |-> Choice] >>)

\* struct ChoiceHolder { e: Choice }
ChoiceHolder == TStruct(<<Field(<<"e">>, Choice)>>)

\* Vec<Choice>
ChoiceList == TVec(Choice)

\* (bool, Vec<i8>, Leaf)
MixedTuple == TTuple(<<TBool, TVec(TInt(TRUE, 8)), Leaf>>)

\* HashMap<String, i8> and HashMap<i32, i32>
StringMap == TMap(TString, TInt(TRUE, 8))
IntMap == TMap(TInt(TRUE, 32), TInt(TRUE, 32))

\* struct MapAndList { m: HashMap<String, i8>, v: Vec<bool> }
MapAndList == TStruct(<<Field(<<"m">>, StringMap), Field(<<"v">>, TVec(TBool))>>)

\* A HashMap is the sequence of its entries in the order it iterates, which
\* is the order the serializer is given them in.  The seed of the map's
\* hasher, drawn when the map is built, decides that order: a map with the
\* entries es iterates in any order of them.
Iterations(es) ==
    {[j \in 1..Len(es) |-> es[p[j]]] :
        p \in {q \in [1..Len(es) -> 1..Len(es)] :
                  \A a, b \in 1..Len(es) : q[a] = q[b] => a = b}}

StrVals == {<<>>, <<"h", "i">>, <<"a", " ", "[">>}

I8Vals == {IntV(FALSE, <<0>>), IntV(FALSE, <<2,2>>), IntV(FALSE, I8Max), IntV(TRUE, I8MinMag)}

I32Vals == {IntV(FALSE, <<0>>), IntV(FALSE, <<2,2>>), IntV(TRUE, <<1>>),
            IntV(FALSE, I32Max), IntV(TRUE, I32MinMag)}

\* 2^53 + 1, the smallest positive integer that is not an f64.
Pow2_53p1 == <<9,0,0,7,1,9,9,2,5,4,7,4,0,9,9,3>>

I64Vals == {IntV(FALSE, <<0>>), IntV(TRUE, <<1,0,0>>), IntV(FALSE, Pow2_53),
            IntV(TRUE, Pow2_53), IntV(FALSE, Pow2_53p1), IntV(TRUE, Pow2_53p1)}

\* The values of an integer type that the model encodes.
IntVals(t) ==
    CASE t.bits = 8 -> IF t.signed THEN I8Vals ELSE {IntV(FALSE, <<0>>), IntV(FALSE, U8Max)}
      [] t.bits = 16 -> IF t.signed THEN {IntV(FALSE, I16Max), IntV(TRUE, I16MinMag)}
                        ELSE {IntV(FALSE, U16Max)}
      [] t.bits = 32 -> IF t.signed THEN I32Vals ELSE {IntV(FALSE, <<1,8>>), IntV(FALSE, U32Max)}
      [] t.bits = 64 -> IF t.signed THEN I64Vals ELSE {IntV(FALSE, <<7>>), IntV(FALSE, Pow2_53p1)}

F64Vals ==
    {F64(FALSE, <<0>>, <<>>), F64(TRUE, <<0>>, <<>>), F64(FALSE, <<1,2,3>>, <<>>),
     F64(TRUE, <<2>>, <<5>>), F64(FALSE, <<1>> \o Zeros(30), <<>>)}

Variant(name, v) == [variant |-> name, v |-> v]

\* Values of Choice, one or more of each variant.
ChoiceVals ==
    << Variant(<<"U">>, <<>>), Variant(<<"N">>, TRUE), Variant(<<"N">>, FALSE),
       Variant(<<"T">>, <<IntV(FALSE, <<2,2>>), TRUE>>),
       Variant(<<"T">>, <<IntV(TRUE, I8MinMag), TRUE>>),
       Variant(<<"S">>, << <<"h", "i">> >>), Variant(<<"S">>, << <<>> >>) >>

\* ------------------------------------------------------------------------
\* The codec as a state machine
\*
\*   ty      the Rust type the calls are made at
\*   value   the value last given to to_string ("none" if the text was
\*           not produced from a value), a HashMap in the order it iterates
\*   ser     the serializer to_string left behind
\*   text    the document: the output of to_string, or a hand-written
\*           document, possibly edited
\*   origin  where text comes from: "start" (no document yet),
\*           "to_string", "compact", "written", "number", "edited", or
\*           "failed" (to_string returned an error: there is no text)
\*   call    the call that has returned: "none", "to_string" (only when
\*           it failed), "from_str", "parse", or "deserialize"
\*           (T::deserialize on a deserializer that is already inside
\*           `entry` containers)
\*   entry   the deserializer's depth when the call was made
\*   res     what the call returned and the deserializer state it left
\* ------------------------------------------------------------------------

VARIABLES ty, value, ser, text, origin, call, entry, res

vars == <<ty, value, ser, text, origin, call, entry, res>>

NoRes == [ok |-> FALSE, val |-> "none", input |-> <<>>, depth |-> 0]

\* Largest depth at which a nested T::deserialize is requested.
MaxDepth == 2

\* Hand edits are made within the first MaxEditPos characters of a document.
MaxEditPos == 8

\* Characters a hand edit inserts.
EditChars == {" ", "}", "]", "x", "\"", "1"}

Init ==
    /\ ty = TUnit
    /\ value = "none"
    /\ ser = NewSerializer
    /\ text = <<>>
    /\ origin = "start"
    /\ call = "none"
    /\ entry = 0
    /\ res = NoRes

\* to_string(&v) for a value v of type t has left the serializer s.  When
\* it returns an error there is no document and the session can only end.
Encoded(t, v, s) ==
    /\ origin = "start"
    /\ ty' = t
    /\ value' = v
    /\ ser' = s
    /\ text' = IF s.ok THEN into_string(s) ELSE <<>>
    /\ origin' = IF s.ok THEN "to_string" ELSE "failed"
    /\ call' = IF s.ok THEN "none" ELSE "to_string"
    /\ entry' = 0
    /\ res' = NoRes

Encode(t, v) == Encoded(t, v, to_string_ser(t, v))

\* Strings that hold a double quote or a backslash.
QuotedStrVals == {<<"a", "\"", "b">>, <<"a", "\\", "b">>}

EncodeScalar ==
    \/ \E t \in {TUnit, TUnitStruct} : Encode(t, "unit")
    \/ \E b \in BOOLEAN : Encode(TBool, b)
    \/ \E b \in BOOLEAN : Encode(TNewtype(TBool), b)
    \/ \E t \in IntTypes : \E v \in IntVals(t) : Encode(t, v)
    \/ \E v \in F64Vals : Encode(TF64, v)
    \/ \E s \in StrVals \cup QuotedStrVals : Encode(TString, s)
    \/ \E c \in {<<"a">>, <<"0">>} : Encode(TChar, c)

EncodeRecord ==
    \/ \E b \in BOOLEAN, i \in I32Vals, s \in StrVals : Encode(Flat, <<b, i, s>>)
    \/ \E b \in BOOLEAN, s \in StrVals, n \in I64Vals : Encode(Tree, <<b, <<s, n>>>>)
    \/ Encode(Empty, <<>>)
    \/ Encode(Data, <<TRUE, IntV(FALSE, <<2,2>>), <<"h", "e", "l", "l", "o", " ", "w", "o", "r", "l", "d">>>>)
    \/ Encode(NestedData, <<TRUE, <<<<"h", "e", "l", "l", "o">>, <<"w", "o", "r", "l", "d">>, <<"g", "o", "o", "d", "b", "y", "e">>>>>>)

EncodeEnum ==
    \E i \in 1..Len(ChoiceVals) :
        LET v == ChoiceVals[i]
        IN  \/ Encode(Choice, v)
            \/ Encode(Wrapped, Variant(<<"W">>, v))
            \/ Encode(ChoiceHolder, <<v>>)
            \/ \E j \in 1..2 : Encode(ChoiceList, <<v, ChoiceVals[j]>>)

EncodeList ==
    \/ \E n \in 0..2, b \in BOOLEAN : Encode(TVec(TBool), [i \in 1..n |-> b])
    \/ \E b \in BOOLEAN, i \in I8Vals, n \in I64Vals :
            Encode(MixedTuple, <<b, <<i, i>>, <<<<"h", "i">>, n>>>>)
    \/ \E n \in 0..1 : Encode(TVec(TVec(TBool)), [i \in 1..n |-> <<TRUE>>])
    \/ \E b \in BOOLEAN : Encode(TVec(TMap(TBool, TBool)), << << <<b, TRUE>> >> >>)

EncodeMap ==
    \/ \E i \in I8Vals : \E es \in Iterations(<< <<<<"a">>, i>>, <<<<"b">>, i>> >>) :
            Encode(StringMap, es)
    \/ \E i \in I32Vals : Encode(IntMap, << <<i, i>> >>)
    \/ \E b \in BOOLEAN : Encode(TMap(TBool, TBool), << <<b, TRUE>> >>)
    \/ Encode(TMap(TChar, TBool), << <<<<"c">>, TRUE>> >>)
    \/ Encode(StringMap, <<>>)
    \/ \E i \in I8Vals, n \in 0..1 :
            Encode(MapAndList, << << <<<<"a">>, i>> >>, [j \in 1..n |-> TRUE] >>)
    \/ \E n \in 0..1 : Encode(TMap(TVec(TBool), TBool), << <<[j \in 1..n |-> TRUE], TRUE>> >>)
    \/ \E i \in 1..Len(ChoiceVals) :
            Encode(TMap(Choice, TBool), << <<ChoiceVals[i], TRUE>> >>)
    \/ Encode(TMap(TOption(TVec(TBool)), TBool), << << << <<TRUE>> >>, TRUE>> >>)
    \/ \E b \in BOOLEAN :
            Encode(TVec(TMap(Leaf, TBool)), << <<  <<<<<<"h", "i">>, IntV(FALSE, <<7>>)>>, b>> >> >>)

\* Hand-written documents, each with the type it is to be decoded at.
Doc(t, s) == [t |-> t, text |-> s]

Docs ==
    << Doc(TBool, <<"t", "r", "u", "e">>), Doc(TBool, <<"t", "r", "u", "e", " ", "x">>), Doc(TBool, <<"f", "a", "l", "s", "e", " ", "/", "/", " ", "c", "\n">>),
       Doc(TBool, <<" ", "t", "r", "u", "e">>),
       Doc(TUnit, <<"n", "u", "l", "l">>), Doc(TString, <<"\"", "a", " ", "b", "\"", " ">>), Doc(TChar, <<"\"", "a", "b", "\"">>),
       Doc(TOption(TBool), <<"n", "u", "l", "l">>), Doc(TOption(TBool), <<"t", "r", "u", "e">>),
       Doc(TOption(TBool), <<"n", "o", "p", "e">>),
       Doc(TOption(StringMap), <<"n", " ", "1">>), Doc(TOption(StringMap), <<"a", " ", "1">>),
       Doc(Flat, <<"b", " ", "t", "r", "u", "e", "\n", "i", " ", "2", "2", "\n", "s", " ", "\"", "h", "i", "\"", "\n">>),
       Doc(Flat, <<"b", " ", "t", "r", "u", "e", ",", " ", "i", " ", "2", "2", " ", "/", "*", " ", "c", " ", "*", "/", " ", "s", " ", "\"", "h", "i", "\"", " ", "/", "/", " ", "e", "n", "d">>),
       Doc(Flat, <<"b", " ", "t", "r", "u", "e", " ", "b", " ", "f", "a", "l", "s", "e", " ", "i", " ", "1", " ", "s", " ", "\"", "\"">>),
       Doc(Flat, <<"b", " ", "t", "r", "u", "e", " ", "z", " ", "[", "1", " ", "{", "\"", "q", "\"", " ", "2", "}", "]", " ", "i", " ", "1", " ", "s", " ", "\"", "\"">>),
       Doc(Flat, <<"b", " ", "t", "r", "u", "e">>),
       Doc(Flat, <<"{", "b", " ", "t", "r", "u", "e", " ", "i", " ", "1", " ", "s", " ", "\"", "\"", "}">>),
       Doc(Tree, <<"b", " ", "t", "r", "u", "e", " ", "f", " ", "{", "k", " ", "\"", "x", "\"", " ", "n", " ", "1", "}">>),
       Doc(Tree, <<"b", " ", "t", "r", "u", "e", " ", "f", " ", "{", "k", " ", "\"", "x", "\"", " ", "n", " ", "1">>),
       Doc(Tree, <<"b", " ", "t", "r", "u", "e", " ", "f", " ", "k", " ", "\"", "x", "\"", " ", "n", " ", "1", "}">>),
       Doc(Tree, <<"f", " ", "{", "\n", "}", "\n", "b", " ", "f", "a", "l", "s", "e">>),
       Doc(Tree, <<"f", " ", "{", "n", " ", "1", " ", "k", " ", "\"", "x", "\"", " ", "n", " ", "2", "}", " ", "b", " ", "t", "r", "u", "e">>),
       Doc(Leaf, <<"{", "k", " ", "\"", "x", "\"", " ", "n", " ", "1", "}">>), Doc(Leaf, <<"{", " ", "k", " ", "\"", "x", "\"", " ", "n", " ", "1", " ", "}", " ", "}">>),
       Doc(Leaf, <<"k", " ", "\"", "x", "\"", " ", "n", " ", "1">>), Doc(Leaf, <<"[", "k", " ", "\"", "x", "\"", " ", "n", " ", "1", "]">>),
       Doc(Empty, <<"{", "}">>), Doc(Empty, <<>>), Doc(Empty, <<" ", "/", "/", " ", "c", "\n">>),
       Doc(Empty, <<"/", "/", "\n">>), Doc(Empty, <<",", " ", "/", "*", "c", "*", "/", " ", "/", "/">>),
       Doc(StringMap, <<"a", " ", "1", " ", "b", " ", "2">>), Doc(StringMap, <<"{", "a", " ", "1", "}">>),
       Doc(StringMap, <<"{", "a", " ", "1", " ", ",", " ", "\"", "b", " ", "c", "\"", " ", "2", " ", "}", " ", "x">>), Doc(StringMap, <<"a", " ", "1", " ", "}">>),
       Doc(StringMap, <<"a", " ", "1", " ", "a", " ", "2">>), Doc(StringMap, <<"a", " ", "1", "e", "1">>), Doc(StringMap, <<"a", " ", "1", "0", ".", " ", "b", " ", "1", ".", "5">>),
       Doc(StringMap, <<"a">>), Doc(StringMap, <<"{", "a", " ", "1">>),
       Doc(StringMap, <<"a", " ", "1", ".", "5", "e", " ", "b", " ", "2">>), Doc(StringMap, <<"a", " ", "i", "n", "f">>),
       Doc(TF64, <<"-", "0">>), Doc(TF64, <<"N", "a", "N">>), Doc(TF64, <<"0", ".", "4", "9", "9", "9", "9", "9", "9", "9", "9", "9", "9", "9", "9", "9", "9", "9", "9">>),
       Doc(IntMap, <<"1", " ", "2", "\n", "3", " ", "4", "\n">>), Doc(IntMap, <<"1", " ", "2", " ", "x", " ", "3">>), Doc(IntMap, <<"{", "1", " ", "2", "}">>),
       Doc(IntMap, <<"{", "1", " ", "2", " ", "x", " ", "3", "}">>),
       Doc(TMap(TInt(TRUE, 8), TInt(TRUE, 8)), <<"1", " ", "2", " ", "3", "0", "0">>),
       Doc(MapAndList, <<"m", " ", "{", "a", " ", "1", "}", " ", "v", " ", "[", "t", "r", "u", "e", "]">>), Doc(MapAndList, <<"m", " ", "{", "}", " ", "v", " ", "[", "]">>),
       Doc(MapAndList, <<"v", " ", "[", "t", "r", "u", "e", " ", "f", "a", "l", "s", "e", "]", " ", "m", " ", "{", "a", " ", "1", " ", "b", " ", "2", "}">>),
       Doc(Choice, <<"\"", "U", "\"">>), Doc(Choice, <<"N", " ", "t", "r", "u", "e">>),
       Doc(Choice, <<"N", " ", "t", "r", "u", "e", " ", "N", " ", "f", "a", "l", "s", "e">>), Doc(Choice, <<"N">>),
       Doc(Choice, <<"U">>), Doc(Choice, <<"{", "N", " ", "t", "r", "u", "e", "}">>),
       Doc(Choice, <<"{", " ", "N", " ", "t", "r", "u", "e", " ", "}", " ">>), Doc(Choice, <<"{", "N", " ", "t", "r", "u", "e", " ", "N", " ", "f", "a", "l", "s", "e", "}">>),
       Doc(Choice, <<"{", "N", " ", "t", "r", "u", "e">>), Doc(Choice, <<"{", "N", "}">>), Doc(Choice, <<"{", "U", " ", "}">>),
       Doc(Choice, <<"T", " ", "[", "1", " ", "t", "r", "u", "e", "]">>), Doc(Choice, <<"{", "T", " ", "[", "1", " ", "t", "r", "u", "e", "]", "}">>),
       Doc(Choice, <<"{", "T", "}">>), Doc(Choice, <<"S", " ", "{", "s", " ", "\"", "x", "\"", "}">>),
       Doc(Choice, <<"{", "S", " ", "{", "s", " ", "\"", "x", "\"", "}", "}">>), Doc(Choice, <<"{", "S", " ", "{", "s", " ", "\"", "x", "\"", "}", " ", "S", " ", "{", "s", " ", "\"", "y", "\"", "}", "}">>),
       Doc(Choice, <<"{", "S", "}">>), Doc(Choice, <<"\"", "N", "\"">>), Doc(Choice, <<"\"", "N", "\"", " ", "t", "r", "u", "e">>),
       Doc(Choice, <<"{", "\"", "N", "\"", " ", "t", "r", "u", "e", "}">>), Doc(Choice, <<"X", " ", "1">>), Doc(Choice, <<"\"", "X", "\"">>),
       Doc(Wrapped, <<"W", " ", "{", "N", " ", "t", "r", "u", "e", "}">>), Doc(Wrapped, <<"W", " ", "\"", "U", "\"">>), Doc(Wrapped, <<"W", " ", "N", " ", "t", "r", "u", "e">>),
       Doc(Wrapped, <<"{", "W", " ", "{", "N", " ", "t", "r", "u", "e", "}", "}">>),
       Doc(ChoiceHolder, <<"e", " ", "{", "N", " ", "t", "r", "u", "e", "}">>), Doc(ChoiceHolder, <<"e", " ", "\"", "U", "\"">>), Doc(ChoiceHolder, <<"e", " ", "N", " ", "t", "r", "u", "e">>),
       Doc(ChoiceHolder, <<"e", " ", "{", "N", " ", "t", "r", "u", "e", " ", "N", " ", "f", "a", "l", "s", "e", "}">>), Doc(ChoiceHolder, <<"e", " ", "{", "S", " ", "{", "s", " ", "\"", "x", "\"", "}", "}">>),
       Doc(ChoiceList, <<"[", "\"", "U", "\"", " ", "{", "N", " ", "t", "r", "u", "e", "}", "]">>), Doc(ChoiceList, <<"[", "{", "N", " ", "t", "r", "u", "e", "}", " ", ",", " ", "{", "T", " ", "[", "3", " ", "f", "a", "l", "s", "e", "]", "}", "]">>),
       Doc(ChoiceList, <<"[", "N", " ", "t", "r", "u", "e", "]">>),
       Doc(TVec(TBool), <<"[", "t", "r", "u", "e", ",", " ", "f", "a", "l", "s", "e", "]">>), Doc(TVec(TBool), <<"[", "t", "r", "u", "e">>),
       Doc(TVec(TBool), <<"t", "r", "u", "e", "]">>), Doc(TVec(TBool), <<"[", "]">>), Doc(TVec(TBool), <<"[", " ", "]", " ", "x">>),
       Doc(MixedTuple, <<"[", "t", "r", "u", "e", " ", "[", "1", " ", "2", "]", " ", "{", "k", " ", "\"", "\"", " ", "n", " ", "3", "}", "]">>), Doc(MixedTuple, <<"[", "t", "r", "u", "e", " ", "[", "1", " ", "2", "]", "]">>),
       Doc(MixedTuple, <<"[", "t", "r", "u", "e", " ", "[", "1", " ", "2", "]", " ", "{", "k", " ", "\"", "\"", " ", "n", " ", "3", "}", " ", "4", "]">>) >>

\* A document written by hand.
WriteDoc ==
    /\ origin = "start"
    /\ \E i \in 1..Len(Docs) :
          /\ ty' = Docs[i].t
          /\ text' = Docs[i].text
    /\ origin' = "written"
    /\ UNCHANGED <<value, ser, call, entry, res>>

\* Number literals: a sign, an integral part around the bounds of the
\* integer types, and a fraction.
LitSigns == {<<>>, <<"-">>}

LitInts ==
    {<<"0">>, <<"2">>, <<"3">>, <<"1", "2", "7">>, <<"1", "2", "8">>, <<"1", "2", "9">>, <<"2", "5", "5">>, <<"2", "5", "6">>,
     <<"3", "2", "7", "6", "7">>, <<"3", "2", "7", "6", "8">>, <<"3", "2", "7", "6", "9">>, <<"6", "5", "5", "3", "5">>, <<"6", "5", "5", "3", "6">>,
     <<"2", "1", "4", "7", "4", "8", "3", "6", "4", "7">>, <<"2", "1", "4", "7", "4", "8", "3", "6", "4", "8">>, <<"2", "1", "4", "7", "4", "8", "3", "6", "4", "9">>, <<"4", "2", "9", "4", "9", "6", "7", "2", "9", "5">>, <<"4", "2", "9", "4", "9", "6", "7", "2", "9", "6">>,
     <<"9", "0", "0", "7", "1", "9", "9", "2", "5", "4", "7", "4", "0", "9", "9", "3">>,
     <<"9", "2", "2", "3", "3", "7", "2", "0", "3", "6", "8", "5", "4", "7", "7", "5", "8", "0", "7">>, <<"9", "2", "2", "3", "3", "7", "2", "0", "3", "6", "8", "5", "4", "7", "7", "5", "8", "0", "8">>, <<"9", "2", "2", "3", "3", "7", "2", "0", "3", "6", "8", "5", "4", "7", "7", "5", "8", "0", "9">>,
     <<"9", "2", "2", "3", "3", "7", "2", "0", "3", "6", "8", "5", "4", "7", "7", "7", "0", "0", "0">>,
     <<"1", "8", "4", "4", "6", "7", "4", "4", "0", "7", "3", "7", "0", "9", "5", "5", "1", "6", "1", "5">>, <<"1", "8", "4", "4", "6", "7", "4", "4", "0", "7", "3", "7", "0", "9", "5", "5", "1", "6", "1", "6">>, <<"1", "8", "4", "4", "6", "7", "4", "4", "0", "7", "3", "7", "0", "9", "5", "5", "5", "0", "0", "0">>,
     <<"1", "2", "3", "8", "1", "9", "0", "2", "3", "8", "0", "1", "9", "2", "8", "3", "0", "9", "1", "2", "8", "3">>}

LitFracs == {<<>>, <<".", "0">>, <<".", "4">>, <<".", "5">>, <<".", "4", "9">>, <<".">>}

\* Fractions are given to integral parts of at most ten digits.
NumLits ==
    {s \o i \o f : s \in LitSigns, i \in LitInts,
                   f \in {g \in LitFracs : TRUE}} \ 
    {s \o i \o f : s \in LitSigns, i \in {j \in LitInts : Len(j) > 10},
                   f \in LitFracs \ {<<>>, <<".", "0">>}}

\* A number literal, to be decoded at an integer type.
WriteNumber ==
    /\ origin = "start"
    /\ \E t \in IntTypes, lit \in NumLits :
          /\ ty' = t
          /\ text' = lit
    /\ origin' = "number"
    /\ UNCHANGED <<value, ser, call, entry, res>>

InsertAt(s, p, c) == Take(s, p - 1) \o <<c>> \o Drop(s, p - 1)

DeleteAt(s, p) == Take(s, p - 1) \o Drop(s, p)

\* Ignored text a hand edit puts into a document: white space and
\* comments.
IgnoredRuns == {<<" ">>, <<"\n">>, <<"/", "*", "c", "*", "/">>, <<"/", "/", "c", "\n">>}

\* A hand edit that inserts white space or a comment into a hand-written
\* document.
InsertIgnored ==
    /\ origin = "written"
    /\ call = "none"
    /\ \E p \in 1..Min(Len(text) + 1, MaxEditPos), run \in IgnoredRuns :
          text' = Take(text, p - 1) \o run \o Drop(text, p - 1)
    /\ origin' = "edited"
    /\ UNCHANGED <<ty, value, ser, call, entry, res>>

\* A hand edit that turns a white-space character of a hand-written
\* document into a comma, or a comma into a space.
SwapSeparator ==
    /\ origin = "written"
    /\ call = "none"
    /\ \E p \in 1..Min(Len(text), MaxEditPos) :
          \/ text[p] \in {" ", "\n"} /\ text' = [text EXCEPT ![p] = ","]
          \/ text[p] = "," /\ text' = [text EXCEPT ![p] = " "]
    /\ origin' = "edited"
    /\ UNCHANGED <<ty, value, ser, call, entry, res>>

\* One hand edit of the document: a character deleted or inserted.
Edit ==
    /\ origin \in {"to_string", "written"}
    /\ call = "none"
    /\ \/ \E p \in 1..Min(Len(text), MaxEditPos) : text' = DeleteAt(text, p)
       \/ \E p \in 1..Min(Len(text) + 1, MaxEditPos), c \in EditChars :
             text' = InsertAt(text, p, c)
    /\ origin' = "edited"
    /\ UNCHANGED <<ty, value, ser, call, entry, res>>

\* The value that to_string has written is serialized again, by a
\* Serializer with a CompactFormatter: value.serialize(&mut serializer).
SerializeCompact ==
    /\ origin = "to_string"
    /\ call = "none"
    /\ ser' = Serialize(ty, value, CompactSerializer)
    /\ text' = Serialize(ty, value, CompactSerializer).writer
    /\ origin' = "compact"
    /\ UNCHANGED <<ty, value, call, entry, res>>

\* from_str::<ty>(text)
FromStr ==
    /\ origin # "start"
    /\ call = "none"
    /\ call' = "from_str"
    /\ entry' = 0
    /\ res' = from_str(ty, text)
    /\ UNCHANGED <<ty, value, ser, text, origin>>

\* parser::parse(text): the document read into a TotValue tree.
Parse ==
    /\ origin \in {"to_string", "written", "edited", "compact"}
    /\ call = "none"
    /\ call' = "parse"
    /\ entry' = 0
    /\ res' = Bind(parse(text), LAMBDA r :
                  [ok |-> r.ok, val |-> r.val, input |-> r.rem, depth |-> 0])
    /\ UNCHANGED <<ty, value, ser, text, origin>>

\* ty::deserialize on a deserializer that stands at text and is inside d
\* containers: the request made for a nested value.
DeserializeAt ==
    /\ origin \in {"written", "edited"}
    /\ call = "none"
    /\ \E d \in 0..MaxDepth :
          /\ entry' = d
          /\ res' = Deserialize(ty, St(text, d))
    /\ call' = "deserialize"
    /\ UNCHANGED <<ty, value, ser, text, origin>>

\* The session ends; the next one starts afresh.
Finish ==
    /\ call # "none"
    /\ ty' = TUnit
    /\ value' = "none"
    /\ ser' = NewSerializer
    /\ text' = <<>>
    /\ origin' = "start"
    /\ call' = "none"
    /\ entry' = 0
    /\ res' = NoRes

Next ==
    \/ EncodeScalar
    \/ EncodeRecord
    \/ EncodeEnum
    \/ EncodeList
    \/ EncodeMap
    \/ WriteDoc
    \/ WriteNumber
    \/ Edit
    \/ InsertIgnored
    \/ SwapSeparator
    \/ SerializeCompact
    \/ FromStr
    \/ Parse
    \/ DeserializeAt
    \/ Finish

Spec == Init /\ [][Next]_vars

\* ------------------------------------------------------------------------
\* Properties
\* ------------------------------------------------------------------------

\* The value of type t was written by to_string and read back by from_str
\* at the same type.
RoundTripped == origin = "to_string" /\ call = "from_str"

\* A record whose fields are booleans, integers, strings or records of the
\* same kinds.
RECURSIVE PlainRecord(_)
PlainRecord(t) ==
    /\ t.k = "struct"
    /\ \A i \in 1..Len(t.fields) :
          \/ t.fields[i].t.k \in {"bool", "int", "string"}
          \/ PlainRecord(t.fields[i].t)

\* Every integer in the record v is an f64: it is less than 64 bits wide
\* or of magnitude at most 2^53.
RECURSIVE ExactInts(_, _)
ExactInts(t, v) ==
    \A i \in 1..Len(t.fields) :
        CASE t.fields[i].t.k = "int" ->
                t.fields[i].t.bits < 64 \/ MagLeq(v[i].mag, Pow2_53)
          [] t.fields[i].t.k = "struct" -> ExactInts(t.fields[i].t, v[i])
          [] OTHER -> TRUE

\* C1 as stated: a record of booleans, integers that fit their width,
\* quote-free strings and nested records of these, written by to_string and
\* read by from_str at the same type, comes back equal.
C1_RecordRoundTrip ==
    (RoundTripped /\ PlainRecord(ty)) => (res.ok /\ res.val = value)

\* C1 (amended): such a record round-trips when each of its integers is
\* less than 64 bits wide or of magnitude at most 2^53, the integers every
\* f64 represents.
C1_ExactRecordRoundTrip ==
    (RoundTripped /\ PlainRecord(ty) /\ ExactInts(ty, value))
        => (res.ok /\ res.val = value)

\* A nested record holding the 64-bit integer 2^53 has made the round trip.
C1_Witness ==
    /\ RoundTripped
    /\ ty = Tree
    /\ value[2][2].mag = Pow2_53
    /\ res.ok
    /\ res.val = value

\* A top-level scalar or unit enum variant.
TopScalar(t, v) ==
    \/ t.k \in {"unit", "unit_struct", "bool", "int", "f64", "string", "char"}
    \/ /\ t.k = "enum"
       /\ t.variants[IndexOfName(t.variants, v.variant, 1)].kind = "unit"

\* C2: to_string's output for a top-level scalar (unit, unit struct, bool,
\* number, string, char) or unit enum variant is accepted by from_str at
\* the same type, which returns the original value.
C2_ScalarRoundTrip ==
    (RoundTripped /\ TopScalar(ty, value)) => (res.ok /\ res.val = value)

\* What T::deserialize leaves unread when from_str calls it on text.
Unread == Deserialize(ty, St(text, 0))

\* C3: from_str returns an error whenever the input left after the value
\* holds a character outside ignored runs, and it never returns Ok with
\* input left unread.
C3_TrailingInputFails ==
    call = "from_str" =>
        /\ (Unread.ok /\ all_ignored(Unread.input).rem # <<>>) => ~res.ok
        /\ res.ok => res.input = <<>>

\* from_str has rejected a document whose value decoded but was followed
\* by more than ignored characters.
C3_Witness ==
    /\ call = "from_str"
    /\ Unread.ok
    /\ all_ignored(Unread.input).rem # <<>>
    /\ ~res.ok

\* The part of text a call has consumed.
Consumed == Take(text, Len(text) - Len(res.input))

\* s ends with the character c followed by ignored characters only.
ClosedBy(s, c) ==
    \E n \in 1..Len(s) : s[n] = c /\ all_ignored(Drop(s, n)).rem = <<>>

\* C4: a map or record requested at depth 0 is read from a brace-less body
\* that ends when the input is exhausted; requested at depth 1 or more it
\* fails unless it starts with `{` and is closed by `}`.
C4_ImplicitRoot ==
    (call = "deserialize" /\ ty.k \in {"map", "struct"} /\ res.ok) =>
        IF entry = 0
        THEN res.input = <<>> /\ res.depth = 0
        ELSE Head(text) = "{" /\ ClosedBy(Consumed, "}") /\ res.depth = entry

\* Whether the delimiters of s are properly nested and all closed.  open
\* holds the delimiters still open, innermost first; quoted strings are
\* skipped, and so is a string that the end of s leaves open.
RECURSIVE Nesting(_, _, _)
Nesting(s, open, quoted) ==
    IF s = <<>> THEN open = <<>>
    ELSE IF quoted THEN Nesting(Tail(s), open, Head(s) # "\"")
    ELSE CASE Head(s) = "\"" -> Nesting(Tail(s), open, TRUE)
           [] Head(s) \in {"[", "{"} -> Nesting(Tail(s), <<Head(s)>> \o open, FALSE)
           [] Head(s) = "]" ->
                open # <<>> /\ Head(open) = "[" /\ Nesting(Tail(s), Tail(open), FALSE)
           [] Head(s) = "}" ->
                open # <<>> /\ Head(open) = "{" /\ Nesting(Tail(s), Tail(open), FALSE)
           [] OTHER -> Nesting(Tail(s), open, FALSE)

\* The delimiters and quotes of s, in order.
IsMark(c) == c \in {"[", "]", "{", "}", "\""}

Marks(s) == SelectSeq(s, IsMark)

Balanced(s) == Nesting(Marks(s), <<>>, FALSE)

\* The number of characters c of s outside quoted strings.
CountOutside(s, c) ==
    Cardinality({i \in 1..Len(s) :
                    /\ s[i] = c
                    /\ Cardinality({j \in 1..(i - 1) : s[j] = "\""}) % 2 = 0})

\* The containers of the value v of type t: lists |-> how many lists,
\* dicts |-> how many dicts other than a top-level one (top says that v is
\* the top-level value).  A variant with a payload is a one-entry dict, and
\* the keys of a map count like its values.
RECURSIVE Containers(_, _, _)
RECURSIVE ContainersOfAll(_, _, _)
ContainersOfAll(ts, vs, i) ==
    IF i > Len(vs) THEN [lists |-> 0, dicts |-> 0]
    ELSE Bind(Containers(ts[i], vs[i], FALSE), LAMBDA a :
         Bind(ContainersOfAll(ts, vs, i + 1), LAMBDA b :
             [lists |-> a.lists + b.lists, dicts |-> a.dicts + b.dicts]))

Plus(c, lists, dicts) == [lists |-> c.lists + lists, dicts |-> c.dicts + dicts]

Containers(t, v, top) ==
    CASE t.k = "option" ->
            IF v = <<>> THEN [lists |-> 0, dicts |-> 0] ELSE Containers(t.t, v[1], top)
      [] t.k = "newtype_struct" -> Containers(t.t, v, top)
      [] t.k \in {"vec", "tuple"} -> Plus(ContainersOfAll(ElemTypes(t, v), v, 1), 1, 0)
      [] t.k = "struct" ->
            Plus(ContainersOfAll([i \in 1..Len(v) |-> t.fields[i].t], v, 1),
                 0, IF top THEN 0 ELSE 1)
      [] t.k = "map" ->
            Bind(ContainersOfAll([i \in 1..Len(v) |-> t.kt], [i \in 1..Len(v) |-> v[i][1]], 1),
                 LAMBDA keys :
                Plus(ContainersOfAll([i \in 1..Len(v) |-> t.vt],
                                     [i \in 1..Len(v) |-> v[i][2]], 1),
                     keys.lists, keys.dicts + IF top THEN 0 ELSE 1))
      [] t.k = "enum" ->
            Bind(t.variants[IndexOfName(t.variants, v.variant, 1)], LAMBDA vt :
                CASE vt.kind = "unit" -> [lists |-> 0, dicts |-> 0]
                  [] vt.kind = "newtype" ->
                        Plus(Containers(vt.t, v.v, FALSE), 0, IF top THEN 0 ELSE 1)
                  [] vt.kind = "tuple" ->
                        Plus(ContainersOfAll(vt.ts, v.v, 1), 1, IF top THEN 0 ELSE 1)
                  [] vt.kind = "struct" ->
                        Plus(ContainersOfAll([i \in 1..Len(v.v) |-> vt.fields[i].t], v.v, 1),
                             0, 1 + IF top THEN 0 ELSE 1))
      [] OTHER -> [lists |-> 0, dicts |-> 0]

\* The dicts that the first key of the map v is written as (a variant with
\* a payload is one): their brace is the first character of the output.
FirstKeyDicts(t, v) ==
    IF t.k = "map" /\ v # <<>> THEN Containers(t.kt, v[1][1], FALSE).dicts ELSE 0

\* C5: to_string leaves out the outer braces exactly when the top-level
\* container is a dict or record, writes a top-level list with `[` and `]`,
\* and writes every nested container with its opening and its matching
\* closing delimiter, so that the delimiters are balanced and nested.
C5_DelimitersBalanced ==
    origin = "to_string" =>
        /\ Balanced(text)
        /\ CountOutside(text, "{") = Containers(ty, value, TRUE).dicts
        /\ CountOutside(text, "}") = Containers(ty, value, TRUE).dicts
        /\ CountOutside(text, "[") = Containers(ty, value, TRUE).lists
        /\ CountOutside(text, "]") = Containers(ty, value, TRUE).lists
        /\ ty.k \in {"vec", "tuple"} => Head(text) = "[" /\ EndsWith(text, <<"]", "\n">>)
        /\ (ty.k \in {"map", "struct"} /\ FirstKeyDicts(ty, value) = 0) => Head(text) # "{"

\* to_string has written a top-level list that holds a list and a record.
C5_Witness ==
    /\ origin = "to_string"
    /\ ty = MixedTuple
    /\ Balanced(text)
    /\ Head(text) = "["
    /\ CountOutside(text, "[") = 2
    /\ CountOutside(text, "{") = 1

\* The words of s: its maximal runs of characters other than spaces and
\* newlines.
Words(s) ==
    LET blank(i) == i < 1 \/ i > Len(s) \/ s[i] \in {" ", "\n"}
        first == SelectSeq([i \in 1..Len(s) |-> i],
                           LAMBDA i : ~blank(i) /\ blank(i - 1))
        last == SelectSeq([i \in 1..Len(s) |-> i],
                          LAMBDA i : ~blank(i) /\ blank(i + 1))
    IN  [k \in 1..Len(first) |-> SubSeq(s, first[k], last[k])]

\* The words the format prescribes for the value v of type t: a unit
\* variant is its quoted name, a variant with a payload is the one-entry
\* dict `Name payload`, in braces unless it is the top-level value.
RECURSIVE Emitted(_, _, _)
RECURSIVE EmittedAll(_, _, _, _)
EmittedAll(ts, names, vs, i) ==
    IF i > Len(vs) THEN <<>>
    ELSE names[i] \o Emitted(ts[i], vs[i], FALSE) \o EmittedAll(ts, names, vs, i + 1)

Braced(top, words) == IF top THEN words ELSE << <<"{">> >> \o words \o << <<"}">> >>

FieldTypes(fields) == [i \in 1..Len(fields) |-> fields[i].t]

FieldNames(fields) == [i \in 1..Len(fields) |-> <<fields[i].name>>]

NoNames(vs) == [i \in 1..Len(vs) |-> <<>>]

Emitted(t, v, top) ==
    CASE t.k = "bool" -> << IF v THEN <<"t", "r", "u", "e">> ELSE <<"f", "a", "l", "s", "e">> >>
      [] t.k = "int" ->
            << (IF v.neg THEN <<"-">> ELSE <<>>) \o DigitText(v.mag) \o <<".", "0">> >>
      [] t.k = "string" -> << <<"\"">> \o v \o <<"\"">> >>
      [] t.k = "vec" ->
            << <<"[">> >> \o EmittedAll(ElemTypes(t, v), NoNames(v), v, 1) \o << <<"]">> >>
      [] t.k = "struct" ->
            Braced(top, EmittedAll(FieldTypes(t.fields), FieldNames(t.fields), v, 1))
      [] t.k = "enum" ->
            Bind(t.variants[IndexOfName(t.variants, v.variant, 1)], LAMBDA vt :
                CASE vt.kind = "unit" -> << <<"\"">> \o vt.name \o <<"\"">> >>
                  [] vt.kind = "newtype" ->
                        Braced(top, <<vt.name>> \o Emitted(vt.t, v.v, FALSE))
                  [] vt.kind = "tuple" ->
                        Braced(top, <<vt.name, <<"[">> >>
                                    \o EmittedAll(vt.ts, NoNames(v.v), v.v, 1)
                                    \o << <<"]">> >>)
                  [] vt.kind = "struct" ->
                        Braced(top, <<vt.name, <<"{">> >>
                                    \o EmittedAll(FieldTypes(vt.fields), FieldNames(vt.fields),
                                                  v.v, 1)
                                    \o << <<"}">> >>))

\* The types whose values hold a variant.
HoldsVariant(t) ==
    \/ t.k = "enum"
    \/ t.k = "vec" /\ t.t.k = "enum"
    \/ t.k = "struct" /\ \E i \in 1..Len(t.fields) : t.fields[i].t.k = "enum"

\* C6: to_string writes a unit variant as its quoted name and a newtype,
\* tuple or struct variant as a one-entry dict `Name payload` whose payload
\* is the value, a list or a dict; the one-entry dict is in braces when the
\* variant is nested in a container and brace-less when it is the
\* top-level value.
C6_VariantEmission ==
    (origin = "to_string" /\ HoldsVariant(ty)) => Words(text) = Emitted(ty, value, TRUE)

\* to_string has written a struct variant nested in a record.
C6_Witness ==
    /\ origin = "to_string"
    /\ ty = ChoiceHolder
    /\ value[1].variant = <<"S">>
    /\ Words(text) = << <<"e">>, <<"{">>, <<"S">>, <<"{">>, <<"s">>,
                        <<"\"", "h", "i", "\"">>, <<"}">>, <<"}">> >>

\* The kind of the variant called name of the enum t, "none" if it has no
\* such variant.
VariantKind(t, name) ==
    Bind(IndexOfName(t.variants, name, 1), LAMBDA i :
        IF i = 0 THEN "none" ELSE t.variants[i].kind)

\* An enum has been requested at depth entry.
EnumRequested == call = "deserialize" /\ ty.k = "enum"

\* text starts with the quoted name of a unit variant.
QuotedUnit == string(text).ok /\ VariantKind(ty, string(text).val) = "unit"

\* What is between the braces of the consumed text.
Body == SubSeq(Consumed, 2, Len(Consumed) - 1)

\* What is between the braces, read as one entry `Name payload`.
SingleEntry == visit_enum(ty.variants, St(Body, 1))

\* Where the entry of a variant starts: behind the opening brace, if the
\* enum is nested and there is one, and behind ignored characters.
EntryStart ==
    all_ignored(IF entry >= 1 /\ text # <<>> /\ Head(text) = "{"
                THEN Tail(text) ELSE text).rem

\* text holds the name of a non-unit variant and no payload: behind the
\* name the input ends or the dict is closed.
NameOnly ==
    /\ key(EntryStart).ok
    /\ VariantKind(ty, key(EntryStart).val) \in {"newtype", "tuple", "struct"}
    /\ \/ all_ignored(key(EntryStart).rem).rem = <<>>
       \/ Head(all_ignored(key(EntryStart).rem).rem) = "}"

\* The first entry `Name payload` behind EntryStart, read as
\* deserialize_enum reads it: one container deeper than the request.
FirstEntry == visit_enum(ty.variants, St(EntryStart, entry + 1))

\* What follows the first entry, behind ignored characters.
AfterFirst == all_ignored(FirstEntry.input).rem

\* text holds a variant with its payload and, behind it, the start of a
\* second entry: something other than the end of the input and the
\* closing brace.
SecondEntry ==
    /\ FirstEntry.ok
    /\ AfterFirst # <<>>
    /\ Head(AfterFirst) # "}"
    /\ key(AfterFirst).ok

\* The two surface forms of a variant: a bare quoted string is a unit
\* variant at any depth; a variant with a payload is accepted only as an
\* entry `Name payload`, brace-less at depth 0 and, at depth 1 or more,
\* the single entry between `{` and `}`; a name without payload is an
\* error.
VariantForms ==
    /\ (EnumRequested /\ QuotedUnit) =>
            /\ res.ok
            /\ res.val = Variant(string(text).val, <<>>)
            /\ res.input = string(text).rem
            /\ res.depth = entry
    /\ (EnumRequested /\ res.ok /\ VariantKind(ty, res.val.variant) # "unit") =>
            IF entry = 0
            THEN key(EntryStart).ok /\ key(EntryStart).val = res.val.variant
            ELSE /\ Head(text) = "{"
                 /\ Consumed[Len(Consumed)] = "}"
                 /\ SingleEntry.ok
                 /\ SingleEntry.val = res.val
                 /\ SingleEntry.input = <<>>
    /\ (EnumRequested /\ NameOnly) => ~res.ok

\* C7 as stated: deserialize_enum accepts a bare quoted string as a unit
\* variant at any depth; it accepts a variant with a payload only as a
\* single entry `Name payload`, brace-less at depth 0 and enclosed in `{`
\* `}` at depth 1 or more; a second entry after the payload, a missing
\* closing brace and a name without payload are errors of deserialize_enum
\* at every depth.
C7_VariantDecoding ==
    /\ VariantForms
    /\ (EnumRequested /\ SecondEntry) => ~res.ok

\* C7 (amended): the surface forms are as stated; a second entry after the
\* payload is an error of deserialize_enum at depth 1 or more, where the
\* closing brace is required in its place; at depth 0 deserialize_enum
\* returns the variant of the first entry and leaves the second entry
\* unread, and it is from_str that fails on it.
C7_VariantDecodingSecondEntry ==
    /\ VariantForms
    /\ (EnumRequested /\ entry >= 1 /\ SecondEntry) => ~res.ok
    /\ (EnumRequested /\ entry = 0 /\ SecondEntry /\ Head(text) # "\"") =>
            /\ res.ok
            /\ res.val = FirstEntry.val
            /\ res.depth = 0
            /\ all_ignored(res.input).rem = AfterFirst
    /\ (call = "from_str" /\ ty.k = "enum" /\ Unread.ok /\ key(Unread.input).ok)
            => ~res.ok

\* A tuple variant in braces has been decoded two containers deep.
C7_Witness ==
    /\ EnumRequested
    /\ entry = 2
    /\ res.ok
    /\ res.val.variant = <<"T">>
    /\ Head(text) = "{"

\* A number literal has been decoded at an integer type.
NumberDecoded == origin = "number" /\ call = "from_str"

\* The literal's value rounded to the nearest integer.
Rounded == round(number(text).val)

Zero == IntV(FALSE, <<0>>)

\* r lies between the bounds of the integer type t, inclusive.
InRange(t, r) ==
    IF r.neg THEN MagLeq(r.mag, IntMinMag(t)) ELSE MagLeq(r.mag, IntMax(t))

\* The bound of t nearest to r, or r itself if it is in range.
Clamp(t, r) ==
    IF InRange(t, r) THEN r
    ELSE IF r.neg THEN IntV(IntMinMag(t) # <<0>>, IntMinMag(t))
    ELSE IntV(FALSE, IntMax(t))

\* C8 as stated: at an integer target of 8, 16 or 32 bits, signed or
\* unsigned, a number whose rounded value is outside the target's range is
\* an error and one whose rounded value is inside yields that integer.
C8_NarrowCoercion ==
    (NumberDecoded /\ ty.bits < 64) =>
        IF InRange(ty, Rounded) THEN res.ok /\ res.val = Rounded ELSE ~res.ok

\* C8 (amended): at an integer target of 8, 16 or 32 bits a number whose
\* rounded value is inside the target's range yields that integer; one
\* whose rounded value is outside is an error, except that an unsigned
\* target turns a negative rounded value into 0.
C8_NarrowCoercionUnlessNegative ==
    (NumberDecoded /\ ty.bits < 64) =>
        IF ~ty.signed /\ Rounded.neg THEN res.ok /\ res.val = Zero
        ELSE IF InRange(ty, Rounded) THEN res.ok /\ res.val = Rounded
        ELSE ~res.ok

\* -128.4 has been decoded as the i8 -128, the lower bound.
C8_Witness ==
    /\ NumberDecoded
    /\ ty = TInt(TRUE, 8)
    /\ number(text).val.fp = <<4>>
    /\ res.ok
    /\ res.val = IntV(TRUE, I8MinMag)

\* C9: decoding a number as a signed or unsigned 64-bit integer never
\* fails on range: a rounded value above the maximum yields the maximum,
\* one below the minimum yields the minimum.
C9_Saturation64 ==
    (NumberDecoded /\ ty.bits = 64) => (res.ok /\ res.val = Clamp(ty, Rounded))

\* 9223372036854775809 has been decoded as the i64 9223372036854775807.
C9_Witness ==
    /\ NumberDecoded
    /\ ty = TInt(TRUE, 64)
    /\ text = DigitText(<<9,2,2,3,3,7,2,0,3,6,8,5,4,7,7,5,8,0,9>>)
    /\ res.ok
    /\ res.val = IntV(FALSE, I64Max)

\* C10: at every unsigned width (8, 16, 32, 64 bits) decoding a negative
\* number succeeds and yields 0.
C10_UnsignedNegativeIsZero ==
    (NumberDecoded /\ ~ty.signed /\ number(text).val.neg) => (res.ok /\ res.val = Zero)

\* -3 has been decoded as the u8 0.
C10_Witness ==
    /\ NumberDecoded
    /\ ty = TInt(FALSE, 8)
    /\ text = <<"-", "3">>
    /\ res.ok
    /\ res.val = Zero

\* ------------------------------------------------------------------------
\* Properties of the serializer's output and of the value parser
\* ------------------------------------------------------------------------

\* What value.serialize wrote before to_string looked at the last byte.
Emitted0 == Serialize(ty, value, NewSerializer).writer

\* C11: the text to_string returns ends with exactly one newline, and
\* to_string appends it only when the serialized stream does not end with
\* one already.
C11_TerminatingNewline ==
    origin = "to_string" =>
        /\ EndsWith(text, <<"\n">>)
        /\ ~EndsWith(text, <<"\n", "\n">>)
        /\ text = IF EndsWith(Emitted0, <<"\n">>) THEN Emitted0 ELSE Emitted0 \o <<"\n">>

\* to_string has returned a record whose last line already ended the
\* stream: nothing was appended.
C11_Witness ==
    /\ origin = "to_string"
    /\ ty = Flat
    /\ EndsWith(Emitted0, <<"\n">>)
    /\ text = Emitted0

\* A type whose values are written as key-value lines only: a map or
\* record whose values are scalars or again such maps and records.
RECURSIVE Keyed(_)
Keyed(t) ==
    CASE t.k = "map" -> t.vt.k \in {"bool", "int", "string"} \/ Keyed(t.vt)
      [] t.k = "struct" ->
            \A i \in 1..Len(t.fields) :
                t.fields[i].t.k \in {"bool", "int", "string"} \/ Keyed(t.fields[i].t)
      [] OTHER -> FALSE

\* The text of a key: a string key or field name as it is, any other key
\* as the serializer writes a value of its type.
KeyText(kt, k) ==
    IF kt.k = "string" THEN k ELSE Serialize(kt, k, NewSerializer).writer

\* The i-th key of the map or record t with value v, its type, and the
\* type and value that go with it.
KeyOf(t, v, i) == IF t.k = "map" THEN v[i][1] ELSE t.fields[i].name
KeyTypeOf(t) == IF t.k = "map" THEN t.kt ELSE TString
SlotType(t, i) == IF t.k = "map" THEN t.vt ELSE t.fields[i].t
SlotValue(t, v, i) == IF t.k = "map" THEN v[i][2] ELSE v[i]

\* The lines the specification prescribes for the body of a dict that is
\* d containers deep, from entry i on: indentation, key text, one space,
\* the value, a newline; a nested dict is braced, its closing brace one
\* level less indented than its entries.
RECURSIVE KeyLines(_, _, _, _)
KeyLines(t, v, d, i) ==
    IF i > Len(v) THEN <<>>
    ELSE Indents(d) \o KeyText(KeyTypeOf(t), KeyOf(t, v, i)) \o <<" ">>
         \o (IF Keyed(SlotType(t, i))
             THEN <<"{", "\n">> \o KeyLines(SlotType(t, i), SlotValue(t, v, i), d + 1, 1)
                  \o Indents(d) \o <<"}">>
             ELSE Serialize(SlotType(t, i), SlotValue(t, v, i), NewSerializer).writer)
         \o <<"\n">> \o KeyLines(t, v, d, i + 1)

\* C12: every map entry and record field is written as the current
\* indentation, the key text, exactly one space, and then the value,
\* whatever the type of the key.
C12_KeyEmission ==
    (origin = "to_string" /\ Keyed(ty) /\ value # <<>>)
        => text = KeyLines(ty, value, 0, 1)

\* A type whose values are trees of null, booleans, numbers, strings,
\* lists and string-keyed dicts.
RECURSIVE TreeLike(_)
TreeLike(t) ==
    CASE t.k \in {"unit", "bool", "int", "f64", "string"} -> TRUE
      [] t.k = "vec" -> TreeLike(t.t)
      [] t.k = "tuple" -> \A i \in 1..Len(t.ts) : TreeLike(t.ts[i])
      [] t.k = "map" -> t.kt.k = "string" /\ TreeLike(t.vt)
      [] t.k = "struct" -> \A i \in 1..Len(t.fields) : TreeLike(t.fields[i].t)
      [] OTHER -> FALSE

\* The TotValue tree of the value v of type t.
RECURSIVE TreeOf(_, _)
TreeOf(t, v) ==
    CASE t.k = "unit" -> Unit
      [] t.k = "bool" -> Boolean(v)
      [] t.k = "int" -> Integer(v)
      [] t.k = "f64" -> Float(v)
      [] t.k = "string" -> String(v)
      [] t.k \in {"vec", "tuple"} ->
            List([i \in 1..Len(v) |-> TreeOf(ElemTypes(t, v)[i], v[i])])
      [] t.k = "map" ->
            Dict(from_iter([i \in 1..Len(v) |-> <<v[i][1], TreeOf(t.vt, v[i][2])>>]))
      [] t.k = "struct" ->
            Dict(from_iter([i \in 1..Len(v) |->
                               <<t.fields[i].name, TreeOf(t.fields[i].t, v[i])>>]))

\* A tree with every Integer turned into the Float of the same number.
RECURSIVE AsFloats(_)
AsFloats(x) ==
    CASE x.k = "Integer" -> Float(int_as_f64(x.v))
      [] x.k = "List" -> List([i \in 1..Len(x.v) |-> AsFloats(x.v[i])])
      [] x.k = "Dict" -> Dict([name \in DOMAIN x.v |-> AsFloats(x.v[name])])
      [] OTHER -> x

\* to_string has written a list or dict built from null, booleans,
\* numbers, strings, lists and string-keyed dicts, and parse has read the
\* text.
TreeRoundTripped ==
    /\ origin = "to_string"
    /\ call = "parse"
    /\ ty.k \in {"vec", "tuple", "map", "struct"}
    /\ TreeLike(ty)

\* C13: parse applied to the text to_string emits for a tree of null,
\* booleans, finite numbers, strings, lists and string-keyed dicts
\* succeeds and returns an equal tree, up to the order of dict keys and to
\* the integer or float representation of a number.
C13_TreeRoundTrip ==
    TreeRoundTripped => (res.ok /\ AsFloats(res.val) = AsFloats(TreeOf(ty, value)))

\* The text t with the run put in before its p-th character.
InsertRun(t, p, run) == Take(t, p - 1) \o run \o Drop(t, p - 1)

\* Characters that separate tokens.
SeparatorChars == {" ", "\n", ","}

\* The p-th character of t follows a token boundary: it is not the first
\* character, no string or comment starts before it, and either it or its
\* predecessor is a separator, or the two are an opening and a closing
\* bracket that follow a separator.
Between(t, p) ==
    /\ p \in 2..Len(t)
    /\ \A q \in 1..(p - 1) : t[q] \notin {"\"", "/"}
    /\ \/ t[p - 1] \in SeparatorChars
       \/ t[p] \in SeparatorChars
       \/ /\ p > 2
          /\ t[p - 2] \in SeparatorChars
          /\ <<t[p - 1], t[p]>> \in {<<"[", "]">>, <<"{", "}">>}

\* C14: white space or a comment inserted between two adjacent tokens of a
\* document that parse accepts gives a document that parse accepts with
\* the same value.
C14_IgnoredInsertion ==
    [][\A p \in 1..MaxEditPos, run \in IgnoredRuns :
          (/\ origin = "written"
           /\ Between(text, p)
           /\ text' = InsertRun(text, p, run)
           /\ parse(text).ok)
              => (parse(text').ok /\ parse(text').val = parse(text).val)]_vars

\* The text t has an unmatched bracket: it holds no comment, its quotes
\* pair up, and outside its strings some bracket is left open, is closed by
\* the wrong bracket, or closes nothing.
Unmatched(t) ==
    /\ \A q \in 1..Len(t) : t[q] # "/"
    /\ Cardinality({q \in 1..Len(t) : t[q] = "\""}) % 2 = 0
    /\ ~Balanced(t)

\* C15: parse and from_str reject every document in which a bracket has no
\* match.
C15_UnmatchedRejected ==
    (call \in {"parse", "from_str"} /\ Unmatched(text)) => ~res.ok

\* A plain word: a non-empty run of characters other than white space,
\* brackets, quotes, commas, comment marks, signs and decimal points.
PlainWord(w) ==
    /\ w # <<>>
    /\ \A q \in 1..Len(w) :
          w[q] \notin {" ", "\n", "[", "]", "{", "}", "\"", ",", "/", ".", "-", "+"}

\* The position of the separator before a last plain word of t, or 0: t is
\* then a body, a separator, and a word that the end of the input follows.
LastWordAt(t) ==
    IF \E n \in 1..(Len(t) - 1) : t[n] \in {" ", "\n"} /\ PlainWord(Drop(t, n))
    THEN CHOOSE n \in 1..(Len(t) - 1) : t[n] \in {" ", "\n"} /\ PlainWord(Drop(t, n))
    ELSE 0

\* The text is a root dict body that the call read accepts when it stands
\* alone, followed by a separator and a key at the end of the input.
KeyAtEnd ==
    /\ LastWordAt(text) > 0
    /\ \/ /\ call = "parse"
          /\ parse(Take(text, LastWordAt(text) - 1)).ok
          /\ parse(Take(text, LastWordAt(text) - 1)).val.k = "Dict"
       \/ /\ call = "from_str"
          /\ ty.k \in {"map", "struct"}
          /\ from_str(ty, Take(text, LastWordAt(text) - 1)).ok

\* C16: parse and from_str fail on a dict body in which a key is followed
\* by the end of the input.
C16_KeyNeedsValue == KeyAtEnd => ~res.ok

\* Some key occurs twice in the pairs.
Repeats(pairs) ==
    \E i, j \in 1..Len(pairs) : i < j /\ pairs[i][1] = pairs[j][1]

\* The tree d is a Dict with one entry for each key of the pairs, which
\* holds the value of the last pair with that key.
LastWins(pairs, d) ==
    /\ d.k = "Dict"
    /\ DOMAIN d.v = {pairs[i][1] : i \in 1..Len(pairs)}
    /\ \A i \in 1..Len(pairs) :
          (\A j \in (i + 1)..Len(pairs) : pairs[j][1] # pairs[i][1])
              => d.v[pairs[i][1]] = pairs[i][2]

\* The key-value pairs of the text read as a root dict body, in the order
\* of the document, and the input left after them.
RootPairs == dict_many0(Ok(text, <<>>))

\* The key-value pairs after the n-th character of the text, and the input
\* left after them.
BracedPairs(n) == dict_many0(Ok(Drop(text, n), <<>>))

\* The n-th character of the text opens a braced dict body, the value of a
\* key, in which some key occurs twice.
RepeatsInBraces(n) ==
    /\ n > 1
    /\ text[n] = "{"
    /\ text[n - 1] \in SeparatorChars
    /\ StartsWith(BracedPairs(n).rem, <<"}">>)
    /\ Repeats(BracedPairs(n).val)

\* parse has read a root dict body in which some key occurs twice.
DuplicateKeyParsed ==
    /\ call = "parse"
    /\ RootPairs.rem = <<>>
    /\ Repeats(RootPairs.val)

\* C17: when a key occurs several times in a dict body, at the root or in
\* braces, parse succeeds and the Dict has one entry for each key of the
\* body, which holds the value of the last occurrence of the key.
C17_LastKeyWins ==
    /\ DuplicateKeyParsed => (res.ok /\ LastWins(RootPairs.val, res.val))
    /\ call = "parse" =>
          \A n \in 1..Len(text) :
              (RepeatsInBraces(n) /\ RootPairs.rem = <<>>) =>
                  /\ res.ok
                  /\ \E name \in DOMAIN res.val.v :
                        LastWins(BracedPairs(n).val, res.val.v[name])

\* parse has read a root body in which a key occurs twice with different
\* values, or one with such a body in braces.
C17_Witness ==
    /\ call = "parse"
    /\ res.ok
    /\ \/ /\ DuplicateKeyParsed
          /\ \E i, j \in 1..Len(RootPairs.val) :
                /\ i < j
                /\ RootPairs.val[i][1] = RootPairs.val[j][1]
                /\ RootPairs.val[i][2] # RootPairs.val[j][2]
       \/ \E n \in 1..Len(text) : RepeatsInBraces(n)

\* C18: the text to_string writes for a string is one string literal that
\* decodes back to exactly that string, with only the newline of to_string
\* after it.
C18_StringLiteral ==
    (origin = "to_string" /\ ty = TString) =>
        /\ string(text).ok
        /\ string(text).val = value
        /\ string(text).rem = <<"\n">>

\* The p-th character of t is a separator that a swap may change: no
\* string or comment starts before it, and it is a comma, or a white-space
\* character that stands alone between two tokens.
Separates(t, p) ==
    /\ p \in 1..Len(t)
    /\ \A q \in 1..(p - 1) : t[q] \notin {"\"", "/"}
    /\ \/ t[p] = ","
       \/ /\ t[p] \in {" ", "\n"}
          /\ 1 < p /\ p < Len(t)
          /\ t[p - 1] \notin SeparatorChars
          /\ t[p + 1] \notin SeparatorChars

\* The text t with the separator at p swapped: a comma for white space, a
\* blank for a comma.
Swapped(t, p) == [t EXCEPT ![p] = IF t[p] = "," THEN " " ELSE ","]

\* C19: a comma put in the place of a white-space character between two
\* tokens of a document that parse accepts, or a blank put in the place of
\* a comma, gives a document that parse accepts with the same value.
C19_CommaAsWhitespace ==
    [][\A p \in 1..MaxEditPos :
          (/\ origin = "written"
           /\ Separates(text, p)
           /\ text' = Swapped(text, p)
           /\ parse(text).ok)
              => (parse(text').ok /\ parse(text').val = parse(text).val)]_vars

\* The root map of the text has a key, the word after the first n
\* characters, that the key deserializer rejects: the text before it
\* decodes on its own, so the decoder asks for a key there, and decoding
\* the key returns an error.
KeyRejectedAt(n) ==
    /\ n = 0 \/ text[n] \in {" ", "\n"}
    /\ text[n + 1] \notin {" ", "\n"}
    /\ ~KeyDeserialize(ty.kt, St(Drop(text, n), 1)).ok
    /\ from_str(ty, Take(text, n)).ok

\* C20: when decoding a key of the root map returns an error, from_str
\* returns an error.
C20_ErrorsAreFatal ==
    (/\ call = "from_str"
     /\ ty.k = "map"
     /\ \E n \in 0..(Len(text) - 1) : KeyRejectedAt(n))
        => ~res.ok

\* ------------------------------------------------------------------------
\* Formatters, options, depth and primitives
\* ------------------------------------------------------------------------

\* The number of lists and dicts nested inside the value v of type t, the
\* root container not counted.
NestedContainers(t, v) ==
    Containers(t, v, TRUE).lists + Containers(t, v, TRUE).dicts
        - (IF t.k \in {"vec", "tuple"} THEN 1 ELSE 0)

\* C21: the output of a serializer with a CompactFormatter for a list or a
\* dict has no newline and no indentation, holds an opening bracket for
\* every nested list and dict, and is accepted by parse with the value
\* parse gives for the pretty output.
C21_CompactOutput ==
    (origin = "compact" /\ ty.k \in {"vec", "tuple", "map", "struct"}) =>
        /\ \A q \in 1..Len(text) : text[q] # "\n"
        /\ FindSub(text, INDENT) < 0
        /\ CountOutside(text, "[") + CountOutside(text, "{") >= NestedContainers(ty, value)
        /\ parse(text).ok
        /\ parse(to_string(ty, value)).ok =>
              parse(text).val = parse(to_string(ty, value)).val

\* C22: decoding an option yields none exactly when the input starts with the
\* literal null, which is consumed; otherwise it yields some(x) exactly when
\* the inner type decodes to x from the same input, with the inner decode's
\* remainder, and fails when the inner decode fails.
C22_OptionDecoding ==
    (call = "deserialize" /\ ty.k = "option") =>
        IF unit(text).ok
        THEN res.ok /\ res.val = <<>> /\ res.input = unit(text).rem
        ELSE /\ res.ok = Deserialize(ty.t, St(text, entry)).ok
             /\ res.ok => /\ res.val = <<Deserialize(ty.t, St(text, entry)).val>>
                          /\ res.input = Deserialize(ty.t, St(text, entry)).input

\* C23: deserialize_seq, deserialize_map, deserialize_struct and
\* deserialize_enum return with the depth they were entered with, with a
\* value or with an error, so the depth is 0 whenever from_str returns.
C23_DepthPairing ==
    /\ (call = "deserialize" /\ ty.k \in {"vec", "tuple", "map", "struct", "enum"}) =>
           res.depth = entry
    /\ call = "from_str" => res.depth = 0

\* The fraction digits fp stand for one half or more.
HalfOrMore(fp) == fp # <<>> /\ fp[1] >= 5

\* The integer nearest to the number x, a tie going away from zero.
Nearest(x) ==
    IF HalfOrMore(x.fp) THEN IntV(x.neg, MagInc(x.ip))
    ELSE IntV(x.neg /\ x.ip # <<0>>, x.ip)

\* A number literal that is read whole has been decoded at an integer type.
WholeNumberDecoded == NumberDecoded /\ number(text).ok /\ number(text).rem = <<>>

\* C24: what an integer target range-checks is the literal's value rounded
\* to the nearest integer, ties away from zero: a signed target of 8, 16 or
\* 32 bits yields that integer when it is in range and fails when it is
\* not, a 64-bit target yields it clamped to its range, and an unsigned
\* target yields 0 when it is negative.
C24_RoundingMode ==
    WholeNumberDecoded =>
        IF ~ty.signed /\ Nearest(number(text).val).neg THEN res.ok /\ res.val = Zero
        ELSE IF ty.bits = 64
        THEN res.ok /\ res.val = Clamp(ty, Nearest(number(text).val))
        ELSE IF InRange(ty, Nearest(number(text).val))
        THEN res.ok /\ res.val = Nearest(number(text).val)
        ELSE ~res.ok

\* 127.5 has been rejected as an i8: it rounds to 128.
C24_Witness ==
    /\ WholeNumberDecoded
    /\ ty = TInt(TRUE, 8)
    /\ text = <<"1", "2", "7", ".", "5">>
    /\ ~res.ok

\* The position p of s is outside quoted strings.
Outside(s, p) == Cardinality({j \in 1..(p - 1) : s[j] = "\""}) % 2 = 0

\* The number of bracket-delimited containers open before position p of s.
OpenAt(s, p) ==
    Cardinality({j \in 1..(p - 1) : s[j] \in {"[", "{"} /\ Outside(s, j)})
        - Cardinality({j \in 1..(p - 1) : s[j] \in {"]", "}"} /\ Outside(s, j)})

\* The positions of s at which a line that is not empty starts.
LineStarts(s) ==
    {p \in 1..Len(s) : (p = 1 \/ s[p - 1] = "\n") /\ Outside(s, p) /\ s[p] # "\n"}

\* The number of spaces the line starting at position p of s begins with.
LeadingSpaces(s, p) == SpanIn(Drop(s, p - 1), {" "})

\* The line starting at position p of s holds a closing bracket first.
ClosingLine(s, p) ==
    /\ p + LeadingSpaces(s, p) <= Len(s)
    /\ s[p + LeadingSpaces(s, p)] \in {"]", "}"}

\* The line starting at position p of s is indented as prescribed under d
\* open containers.
WellIndented(s, p, d) ==
    LeadingSpaces(s, p) = 4 * (IF ClosingLine(s, p) THEN d - 1 ELSE d)

\* C25: in to_string's output for a list or a dict, every key line and
\* list-element line starts with 4*d spaces and every line of a closing
\* bracket with 4*(d-1) spaces, d being the number of bracket-delimited
\* containers open around the line.
C25_PrettyIndentation ==
    (origin = "to_string" /\ ty.k \in {"vec", "tuple", "map", "struct", "enum"}) =>
        \A p \in LineStarts(text) : WellIndented(text, p, OpenAt(text, p))

\* C26: a begin-list or begin-dict raises the indent count of the
\* DefaultFormatter by one and the matching end lowers it by one, so the
\* count is not negative and is 0 again once to_string has emitted the
\* top-level value, a dict root or a list root.
C26_SymmetricIndent ==
    (origin = "to_string" /\ ty.k \in {"vec", "tuple", "map", "struct"}) =>
        /\ begin_list(ser).indents = ser.indents + 1
        /\ end_list(begin_list(ser)).indents = ser.indents
        /\ begin_dict(ser).indents = ser.indents + 1
        /\ end_dict(begin_dict(ser)).indents = ser.indents
        /\ ser.indents = 0

\* What is left of i after the ignored characters it begins with: white
\* space, commas, line comments (from // to the end of the line, whatever
\* is between) and terminated block comments.
RECURSIVE SkipIgnored(_)
SkipIgnored(i) ==
    IF SpanIn(i, MultispaceChars \cup {","}) > 0
    THEN SkipIgnored(Drop(i, SpanIn(i, MultispaceChars \cup {","})))
    ELSE IF StartsWith(i, <<"/", "/">>)
    THEN SkipIgnored(Drop(i, 2 + SpanNotIn(Drop(i, 2), {"\r", "\n"})))
    ELSE IF StartsWith(i, <<"/", "*">>) /\ FindSub(Drop(i, 2), <<"*", "/">>) >= 0
    THEN SkipIgnored(Drop(i, 4 + FindSub(Drop(i, 2), <<"*", "/">>)))
    ELSE i

\* i starts with white space, a comma or a comment.
StartsIgnored(i) == SkipIgnored(i) # i

\* The parts of a document all_ignored is applied to: its suffixes.
Suffixes(s) == {Drop(s, n) : n \in 0..Len(s)}

\* C27: all_ignored never fails; it consumes the whole of an input made of
\* white space, commas, line comments and terminated block comments only,
\* and what it leaves of any other input does not start with white space, a
\* comma or a comment.
C27_AllIgnored ==
    origin \in {"written", "edited"} =>
        \A i \in Suffixes(text) :
            /\ all_ignored(i).ok
            /\ SkipIgnored(i) = <<>> => all_ignored(i).rem = <<>>
            /\ ~StartsIgnored(all_ignored(i).rem)

\* s is what is left of i after at least one character.
ProperSuffix(s, i) == Len(s) < Len(i) /\ s = Drop(i, Len(i) - Len(s))

\* The primitive's result r on the input i moved the cursor forward if it
\* is a value and left it where it was if it is an error.
CursorKept(r, i) == IF r.ok THEN ProperSuffix(r.input, i) ELSE r.input = i

\* C28: parse_unit, parse_bool, parse_number, parse_string and parse_key
\* leave the remaining input unchanged when they return an error and leave
\* a proper suffix of it when they succeed, wherever in a document the
\* cursor stands.
C28_FailedPrimitiveKeepsCursor ==
    /\ (origin \in {"written", "edited"} /\ call = "none") =>
           \A i \in Suffixes(text) :
               /\ CursorKept(parse_unit(St(i, entry)), i)
               /\ CursorKept(parse_bool(St(i, entry)), i)
               /\ CursorKept(parse_number(St(i, entry)), i)
               /\ CursorKept(parse_string(St(i, entry)), i)
               /\ CursorKept(parse_key(St(i, entry)), i)
    /\ origin = "number" => CursorKept(parse_number(St(text, entry)), text)
    /\ (call = "deserialize" /\ ty.k \in {"unit", "bool", "string"}) =>
           CursorKept(res, text)

\* parse_bool has failed on a document that is not empty and the cursor
\* is where it was.
C28_Witness ==
    /\ call = "deserialize"
    /\ ty = TBool
    /\ text # <<>>
    /\ ~res.ok
    /\ res.input = text

\* C29: a string that is opened by a double quote and is malformed after it
\* is an error of the key recognizer too: key does not read the text as a
\* bare token.
C29_MalformedStringIsFatal ==
    (origin \in {"written", "edited"} /\ call = "none") =>
        \A i \in Suffixes(text) :
            (StartsWith(i, <<"\"">>) /\ ~string(i).ok) => ~key(i).ok

\* The text l is an optional minus sign and digits, nothing else.
DigitsOnly(l) ==
    /\ l # <<>>
    /\ Drop(l, IF Head(l) = "-" THEN 1 ELSE 0) # <<>>
    /\ \A q \in 1..Len(l) : l[q] \in DigitChars \/ (q = 1 /\ l[q] = "-")

\* The literal float reads at the start of i.
FloatLiteral(i) == Take(i, Len(i) - Len(float(i).rem))

\* C30: on every input on which float succeeds scalar succeeds with the
\* same remainder; it yields an Integer when the literal is an optional
\* minus sign and digits only, and a Float otherwise.
C30_NumberConsumedWhole ==
    (origin \in {"written", "edited"} /\ call = "none") =>
        \A i \in Suffixes(text) :
            float(i).ok =>
                /\ scalar(i).ok
                /\ scalar(i).rem = float(i).rem
                /\ scalar(i).val.k = IF DigitsOnly(FloatLiteral(i)) THEN "Integer" ELSE "Float"

====
